---- MODULE Spec2Model ----
(***************************************************************************)
(* dailynotes-panel: task metadata normalization, identifier allocation,   *)
(* rollover into today's note and the save handlers, as a state machine.   *)
(*                                                                         *)
(* Text is modelled at the granularity at which the program's regular      *)
(* expressions decide: a line is a sequence of atoms, an atom being a run  *)
(* of characters that the regexes never split (a space, the list marker,   *)
(* a checkbox, a priority marker, a metadata key with its colon, a value,  *)
(* a word, a tag, a decorator).  A document is a sequence of lines.        *)
(***************************************************************************)
EXTENDS Integers, Sequences, FiniteSets, TLC

\* ------------------------------------------------------------------ bounds
MaxLines == 2      \* lines of a document drawn as input
MaxDay == 2        \* "today" ranges over 1..MaxDay; notes may be dated one day later
MaxEdits == 1      \* lines the user authors in the whole workspace

VARIABLES
    files,         \* file name -> content (sequence of lines), for the files that exist
    today,         \* the current day (index into DateLabels)
    last,          \* what the last command or handler did (history, for the properties)
    existingIds,   \* generateShortId's argument: the set of ids known to be in use
    newId,         \* generateShortId's last result ("" before the first call)
    authored,      \* how many lines the user has typed so far
    savedIds,      \* other markdown file -> the task ids its saves have seen (history)
    config,        \* the dailyNotes settings: folder, autoSaveEnabled
    rootPath,      \* getWorkspaceRootPath(): the first workspace folder, "" when none
    now,           \* Date.now(), in milliseconds since the start
    typingCooldownUntilMs,     \* activate's variable of that name
    autoSaveInterval,          \* activate's variable: the current timer handle, 0 for undefined
    timers,                    \* the interval timers that are live in the runtime
    disposed,                  \* the extension's subscriptions have been disposed
    autoSavedDocuments,        \* activate's Set of that name
    normalizingDocuments,      \* activate's Set of that name
    previousActiveEditorUri,   \* activate's variable of that name, "" for undefined
    dirty,         \* the open documents with unsaved changes
    raw,           \* the open documents for which computeTaskNormalizationEdits has edits
    typedAt,       \* when the user last changed the text of a document with a file (history)
    queue,         \* the events and promise resolutions the extension host has yet to run
    chain          \* document -> what its current save chain has done so far (history)

editorVars ==
    <<config, rootPath, now, typingCooldownUntilMs, autoSaveInterval, timers, disposed,
      autoSavedDocuments, normalizingDocuments, previousActiveEditorUri, dirty, raw,
      typedAt, queue, chain>>

vars == <<files, today, last, existingIds, newId, authored, savedIds, editorVars>>

\* the editor at rest: no timer, no pending event, no open document with changes
EditorAtRest ==
    /\ now = 0
    /\ typingCooldownUntilMs = 0
    /\ autoSaveInterval = 0
    /\ timers = {}
    /\ disposed = FALSE
    /\ autoSavedDocuments = {}
    /\ normalizingDocuments = {}
    /\ previousActiveEditorUri = ""
    /\ dirty = {}
    /\ raw = {}
    /\ typedAt = -1
    /\ queue = <<>>
    /\ chain = <<>>

\* at rest, with the notes folder configured and autosave off: the state in which the
\* commands on the notes folder are studied on their own
EditorIdle ==
    /\ config = [folder |-> "notes", autoSaveEnabled |-> FALSE]
    /\ rootPath = "/ws"
    /\ EditorAtRest

\* ------------------------------------------------------------- small helpers
Min(S) == CHOOSE m \in S : \A n \in S : m <= n
Max(S) == CHOOSE m \in S : \A n \in S : m >= n

\* the subsequence of s at the positions K, in order
RECURSIVE PickFrom(_, _, _)
PickFrom(s, K, i) ==
    IF i > Len(s) THEN <<>>
    ELSE (IF i \in K THEN <<s[i]>> ELSE <<>>) \o PickFrom(s, K, i + 1)
Pick(s, K) == PickFrom(s, K, 1)

RECURSIVE Flatten(_)
Flatten(ss) == IF ss = <<>> THEN <<>> ELSE Head(ss) \o Flatten(Tail(ss))

IsPrefix(p, s) == Len(p) <= Len(s) /\ SubSeq(s, 1, Len(p)) = p

\* --------------------------------------------------------------------- dates
\* utils.formatDate / formatToday with dateFormat 'yyyy-mm-dd': day number -> label
DateLabels == <<"2026-02-01", "2026-02-02", "2026-02-03", "2026-02-04", "2026-02-05">>
NoteDays == 1..(MaxDay + 1)
formatDate(d) == DateLabels[d]
formatToday == formatDate(today)

\* --------------------------------------------------------------------- atoms
Space == " "
CheckAtoms == {"[ ]", "[x]", "[X]"}                 \* \[([ xX])\]
PrioAtoms == {"(A)", "(B)", "(C)"}                  \* \(([A-Z])\)
KeyAtoms == {"id:", "cd:", "due:", "dd:", "ID:"}    \* (id|cd|dd|due): under the i flag
PunctAtoms == {"-", ".", ")", "#", "##", "--", "---"}    \* runs of non-word characters
TagAtoms == {"+Alpha", "+Beta", "+Zeta", "+Ungrouped", "@home"}    \* +project, @context
DecoAtoms == {"~[[" \o DateLabels[d] \o "]]" : d \in 1..Len(DateLabels)}

\* \b: is the first / last character of the atom a word character [A-Za-z0-9_]
StartsWord(a) ==
    a \notin ({Space} \cup CheckAtoms \cup PrioAtoms \cup PunctAtoms \cup TagAtoms \cup DecoAtoms)
EndsWord(a) ==
    a \notin ({Space} \cup CheckAtoms \cup PrioAtoms \cup PunctAtoms \cup KeyAtoms \cup DecoAtoms)

\* String(key).toLowerCase() of a key atom, "" for any other atom
KeyOf(a) ==
    CASE a \in {"id:", "ID:"} -> "id"
      [] a = "cd:" -> "cd"
      [] a = "due:" -> "due"
      [] a = "dd:" -> "dd"
      [] OTHER -> ""

\* ----------------------------------------------------------- white space
\* first position >= i that holds no space (Len(s) + 1 when there is none): \s*
SkipSpaces(s, i) ==
    LET J == {j \in i..Len(s) : s[j] # Space}
    IN  IF J = {} THEN Len(s) + 1 ELSE Min(J)

\* first position >= i that holds a space (Len(s) + 1 when there is none): [^\s]+
NextSpace(s, i) ==
    LET J == {j \in i..Len(s) : s[j] = Space}
    IN  IF J = {} THEN Len(s) + 1 ELSE Min(J)

RTrim(s) ==
    LET J == {j \in 1..Len(s) : s[j] # Space}
    IN  IF J = {} THEN <<>> ELSE SubSeq(s, 1, Max(J))

\* String.prototype.trim
Trim(s) ==
    LET r == RTrim(s)
    IN  IF r = <<>> THEN <<>> ELSE SubSeq(r, SkipSpaces(r, 1), Len(r))

\* .replace(/\s+/g, ' ')
CollapseSpaces(s) ==
    Pick(s, {i \in 1..Len(s) : s[i] # Space \/ i = 1 \/ s[i - 1] # Space})

\* ------------------------------------------------------ the task line regexes
NoMatch == [ok |-> FALSE, prefix |-> <<>>, check |-> "", priority |-> "", body |-> <<>>]

\* extension.ts TASK_LINE_REGEX = /^(\s*-\s+\[([ xX])\]\s*)(?:\(([A-Z])\)\s+)?(.+?)\s*$/
\* match[1] = prefix, match[2] = check, match[3] = priority ("" when absent), match[4] = body
TASK_LINE_REGEX(line) ==
    LET i0 == SkipSpaces(line, 1)
        ok1 == i0 + 1 <= Len(line) /\ line[i0] = "-" /\ line[i0 + 1] = Space
        j == SkipSpaces(line, i0 + 1)
        ok2 == ok1 /\ j <= Len(line) /\ line[j] \in CheckAtoms
        p == SkipSpaces(line, j + 1)
        rest == SubSeq(line, p, Len(line))
        rt == RTrim(rest)
    IN  IF ~ok2 THEN NoMatch
        ELSE IF rt = <<>>
        THEN \* only spaces follow the checkbox: \s* gives one back to (.+?), if it has one
             IF p > j + 1
             THEN [ok |-> TRUE, prefix |-> SubSeq(line, 1, p - 2), check |-> line[j],
                   priority |-> "", body |-> <<Space>>]
             ELSE NoMatch
        ELSE IF rt[1] \in PrioAtoms /\ Len(rt) >= 3 /\ rt[2] = Space
        THEN [ok |-> TRUE, prefix |-> SubSeq(line, 1, p - 1), check |-> line[j],
              priority |-> rt[1], body |-> SubSeq(rt, SkipSpaces(rt, 2), Len(rt))]
        ELSE IF Len(rt) = 1 /\ rt[1] \in PrioAtoms /\ Len(rest) >= 3
        THEN \* "(A)" and two or more spaces: \s+ takes all but one, (.+?) the last
             [ok |-> TRUE, prefix |-> SubSeq(line, 1, p - 1), check |-> line[j],
              priority |-> rt[1], body |-> <<Space>>]
        ELSE [ok |-> TRUE, prefix |-> SubSeq(line, 1, p - 1), check |-> line[j],
              priority |-> "", body |-> rt]

\* taskParser.ts TASK_REGEX = /^-\s+\[([ xX])\]\s*(?:\(([A-Z])\)\s+)?(.+)$/, applied to line.trim()
TASK_REGEX(trimmed) ==
    LET ok1 == Len(trimmed) >= 2 /\ trimmed[1] = "-" /\ trimmed[2] = Space
        j == SkipSpaces(trimmed, 2)
        ok2 == ok1 /\ j <= Len(trimmed) /\ trimmed[j] \in CheckAtoms
        p == SkipSpaces(trimmed, j + 1)
        rest == SubSeq(trimmed, p, Len(trimmed))
    IN  IF ~ok2 \/ rest = <<>> THEN NoMatch
        ELSE IF rest[1] \in PrioAtoms /\ Len(rest) >= 3 /\ rest[2] = Space
        THEN [ok |-> TRUE, prefix |-> SubSeq(trimmed, 1, p - 1), check |-> trimmed[j],
              priority |-> rest[1], body |-> SubSeq(rest, SkipSpaces(rest, 2), Len(rest))]
        ELSE [ok |-> TRUE, prefix |-> SubSeq(trimmed, 1, p - 1), check |-> trimmed[j],
              priority |-> "", body |-> rest]

\* ------------------------------------------------------------ metadata tokens
NoMeta == [id |-> <<>>, cd |-> <<>>, due |-> <<>>, dd |-> <<>>]

\* /\b(id|cd|dd|due):([^\s]+)\b/gi tried at position i of s: the number of atoms of the
\* value (group 2), 0 when there is no match at i.  The value is the longest run of
\* non-space atoms after the key that ends at a word boundary.
META_TOKEN_REGEX(s, i) ==
    IF KeyOf(s[i]) = "" \/ (i > 1 /\ EndsWord(s[i - 1])) THEN 0
    ELSE LET run == NextSpace(s, i + 1) - (i + 1)
             N == {n \in 1..run :
                     EndsWord(s[i + n]) # (n < run /\ StartsWord(s[i + n + 1]))}
         IN  IF i + 1 > Len(s) \/ s[i + 1] = Space \/ N = {} THEN 0 ELSE Max(N)

\* text.replace(META_TOKEN_REGEX, (_m, key, value) => { meta[k] = value; return ''; })
RECURSIVE ReplaceMetaTokens(_, _, _, _)
ReplaceMetaTokens(s, i, kept, meta) ==
    IF i > Len(s) THEN [kept |-> kept, meta |-> meta]
    ELSE LET n == META_TOKEN_REGEX(s, i)
         IN  IF n = 0
             THEN ReplaceMetaTokens(s, i + 1, Append(kept, s[i]), meta)
             ELSE ReplaceMetaTokens(s, i + n + 1, kept,
                                    [meta EXCEPT ![KeyOf(s[i])] = SubSeq(s, i + 1, i + n)])

\* a replace callback that records the value but hands the match back unchanged
stripAndCollectMeta_keepsTokens(text) ==
    [cleanedText |-> Trim(CollapseSpaces(text)),
     meta |-> ReplaceMetaTokens(text, 1, <<>>, NoMeta).meta]

\* extension.ts stripAndCollectMeta
stripAndCollectMeta(text) ==
    LET r == ReplaceMetaTokens(text, 1, <<>>, NoMeta)
    IN  [cleanedText |-> Trim(CollapseSpaces(r.kept)), meta |-> r.meta]

\* taskParser.ts parseAndStripMetadata
parseAndStripMetadata(text) ==
    LET r == ReplaceMetaTokens(text, 1, <<>>, NoMeta)
    IN  [cleanedText |-> Trim(CollapseSpaces(r.kept)), meta |-> r.meta]

\* a join that puts two spaces before each token
MetaPart_twoSpaces(key, value) == IF value = <<>> THEN <<>> ELSE <<Space, Space, key>> \o value

\* one part of the suffix, with the space that precedes it: parts.join(' ')
MetaPart(key, value) == IF value = <<>> THEN <<>> ELSE <<Space, key>> \o value

\* a suffix builder that forgets the completion date
buildMetaSuffix_withoutDd(meta) ==
    MetaPart("id:", meta.id) \o MetaPart("cd:", meta.cd) \o MetaPart("due:", meta.due)

\* extension.ts buildMetaSuffix: ' ' + parts.join(' '), in the order id, cd, due, dd
buildMetaSuffix(meta) ==
    MetaPart("id:", meta.id) \o MetaPart("cd:", meta.cd)
        \o MetaPart("due:", meta.due) \o MetaPart("dd:", meta.dd)

\* ---------------------------------------------------------------- identifiers
MinIdLength == 3       \* for (let length = 3; ...
MaxIdLength == 10      \* ... length <= 10; length++)
FallbackLength == 6    \* .slice(0, 6)

\* the base-36 candidates the random source can produce, a few of each length
IdUniverse ==
    {"abc", "abd", "abcd", "abcde", "abcdef", "abcdefg", "abcdefgh",
     "abcdefghi", "abcdefghij"}

\* what crypto.randomUUID().replace(/-/g, '').slice(0, 6) can produce: six hex digits
FallbackIds == {"abcdef", "c0ffee"}

\* candidate.slice(0, length): the candidates of one length
Candidates(length) == {c \in IdUniverse : Len(c) = length}

\* all attempts at one length can collide: each draws a candidate that is already known
CanExhaust(existingIdSet, length) == Candidates(length) \cap existingIdSet # {}

\* extension.ts generateShortId: the ids a call can return for a given set of known ids.
\* A candidate of some length is returned when it is unknown and the attempts at every
\* shorter length collided; the fallback is returned, unchecked, when all lengths did.
generateShortId(existingIdSet) ==
    {c \in IdUniverse :
        /\ c \notin existingIdSet
        /\ \A k \in MinIdLength..(Len(c) - 1) : CanExhaust(existingIdSet, k)}
    \cup (IF \A k \in MinIdLength..MaxIdLength : CanExhaust(existingIdSet, k)
          THEN {f \in FallbackIds : Len(f) = FallbackLength} ELSE {})

\* m[1].toLowerCase() for the value atoms that occur after "id:"
toLowerCase(a) == IF a = "ABC" THEN "abc" ELSE a

\* [a-z0-9]{3,} under the i flag: the atoms that are wholly alphanumeric
AlnumAtoms == IdUniverse \cup FallbackIds \cup {"ABC"}

\* lineText.match(/\bid:([a-z0-9]{3,})\b/i): the lower-cased id of the FIRST match on
\* the line, as a set (empty when nothing matches)
PrescanLine(line) ==
    LET M == {i \in 1..(Len(line) - 1) :
                /\ KeyOf(line[i]) = "id"
                /\ (i = 1 \/ ~EndsWord(line[i - 1]))
                /\ line[i + 1] \in AlnumAtoms
                /\ (i + 2 > Len(line) \/ ~StartsWord(line[i + 2]))}
    IN  IF M = {} THEN {} ELSE {toLowerCase(line[Min(M) + 1])}

\* the pre-scan loop of computeTaskNormalizationEdits
PrescanIds(doc) == UNION {PrescanLine(doc[i]) : i \in 1..Len(doc)}

\* ----------------------------------------------------------------- normalizer
IsChecked(check) == check \in {"[x]", "[X]"}      \* match[2].toLowerCase() === 'x'

\* a loop body that stamps the creation date on every pass
NormalizedLine_restampsCd(m, sc, idValue, base, ddToday) ==
    LET m1 == [sc.meta EXCEPT !.id = idValue, !.cd = base]
        m3 == IF IsChecked(m.check)
              THEN (IF m1.dd = <<>> THEN [m1 EXCEPT !.dd = <<ddToday>>] ELSE m1)
              ELSE [m1 EXCEPT !.dd = <<>>]
        priorityPrefix == IF m.priority # "" THEN <<m.priority, Space>> ELSE <<>>
    IN  m.prefix \o priorityPrefix \o sc.cleanedText \o buildMetaSuffix(m3)

\* the body of the second loop for one matching, non-blank line, with the id decided
NormalizedLine(m, sc, idValue, base, ddToday) ==
    LET m1 == [sc.meta EXCEPT !.id = idValue]
        m2 == IF m1.cd = <<>> THEN [m1 EXCEPT !.cd = base] ELSE m1
        m3 == IF IsChecked(m.check)
              THEN (IF m2.dd = <<>> THEN [m2 EXCEPT !.dd = <<ddToday>>] ELSE m2)
              ELSE [m2 EXCEPT !.dd = <<>>]
        priorityPrefix == IF m.priority # "" THEN <<m.priority, Space>> ELSE <<>>
    IN  m.prefix \o priorityPrefix \o sc.cleanedText \o buildMetaSuffix(m3)

\* a loop that does not skip blank placeholders
Rewrites_everyTaskLine(line) == TASK_LINE_REGEX(line).ok

\* does the second loop reach the rewrite for this line (it matches and is not a blank
\* placeholder)
Rewrites(line) ==
    TASK_LINE_REGEX(line).ok
        /\ stripAndCollectMeta(TASK_LINE_REGEX(line).body).cleanedText # <<>>

\* the second loop from line i on: the possible edit lists, an edit being <<line, text>>
RECURSIVE NormalizeFrom(_, _, _, _, _)
NormalizeFrom(doc, i, ids, base, ddToday) ==
    IF i > Len(doc) THEN {{}}
    ELSE IF ~Rewrites(doc[i]) THEN NormalizeFrom(doc, i + 1, ids, base, ddToday)
    ELSE LET m == TASK_LINE_REGEX(doc[i])
             sc == stripAndCollectMeta(m.body)
             choices == IF sc.meta.id # <<>>
                        THEN {[id |-> sc.meta.id, ids |-> ids]}
                        ELSE {[id |-> <<c>>, ids |-> ids \cup {c}] : c \in generateShortId(ids)}
         IN  UNION {
               LET normalized == NormalizedLine(m, sc, g.id, base, ddToday)
               IN  {IF normalized # doc[i] THEN {<<i, normalized>>} \cup rest ELSE rest :
                       rest \in NormalizeFrom(doc, i + 1, g.ids, base, ddToday)}
               : g \in choices}

\* extension.ts computeTaskNormalizationEdits: every edit list a call can return
computeTaskNormalizationEdits(doc, base, ddToday) ==
    NormalizeFrom(doc, 1, PrescanIds(doc), <<base>>, ddToday)

\* WorkspaceEdit.set + applyEdit / waitUntil(edits): replace the edited lines
ApplyEdits(doc, edits) ==
    [k \in 1..Len(doc) |->
        IF \E e \in edits : e[1] = k THEN (CHOOSE e \in edits : e[1] = k)[2] ELSE doc[k]]

\* --------------------------------------------------------------------- parser
\* taskParser.ts parseTaskLine returns non-null
IsTaskLine(line) == TASK_REGEX(Trim(line)).ok

\* taskParser.ts parseTaskLine, for a line it recognizes
parseTaskLine(line, sourceDate) ==
    LET match == TASK_REGEX(Trim(line))
        pm == parseAndStripMetadata(Trim(match.body))
    IN  [completed |-> match.check \in {"[x]", "[X]"},
         priority |-> match.priority,
         text |-> pm.cleanedText,
         id |-> pm.meta.id, cd |-> pm.meta.cd, due |-> pm.meta.due, dd |-> pm.meta.dd,
         sourceDate |-> sourceDate,
         rawLine |-> Trim(line)]

\* taskParser.ts parseTasksFromContent: the tasks of the lines that parse, in order
parseTasksFromContent(content, sourceDate) ==
    LET K == {k \in 1..Len(content) : IsTaskLine(content[k])}
    IN  [n \in 1..Cardinality(K) |-> parseTaskLine(Pick(content, K)[n], sourceDate)]

\* taskParser.ts getUncompletedTasks
getUncompletedTasks(tasks) == Pick(tasks, {k \in 1..Len(tasks) : ~tasks[k].completed})

\* a default that sorts before the letters
PriorityRank_noneFirst(priority) ==
    CASE priority = "(A)" -> 1 [] priority = "(B)" -> 2 [] priority = "(C)" -> 3 [] OTHER -> 0

\* a.priority ?? 'ZZZ' under localeCompare: the letters in order, no priority last
PriorityRank(priority) ==
    CASE priority = "(A)" -> 1 [] priority = "(B)" -> 2 [] priority = "(C)" -> 3 [] OTHER -> 4

\* a sort that keeps the source order whatever the priorities
sortTasksByPriority_unsorted(tasks) == tasks

\* taskParser.ts sortTasksByPriority: a copy, sorted by priority, stable
sortTasksByPriority(tasks) ==
    Flatten([r \in 1..5 |->
                Pick(tasks, {k \in 1..Len(tasks) : PriorityRank(tasks[k].priority) = r - 1})])

BackLink(sourceDate) == "[[" \o sourceDate \o "]]"

\* taskParser.ts formatTaskLine
formatTaskLine(task, includeDate) ==
    LET checkbox == IF task.completed THEN "[x]" ELSE "[ ]"
        priority == IF task.priority # "" THEN <<task.priority, Space>> ELSE <<>>
        date == IF includeDate THEN <<Space, "--", Space, BackLink(task.sourceDate)>> ELSE <<>>
        metaSuffix == MetaPart("id:", task.id) \o MetaPart("cd:", task.cd)
                        \o MetaPart("due:", task.due) \o MetaPart("dd:", task.dd)
    IN  <<"-", Space, checkbox, Space>> \o priority \o task.text \o metaSuffix \o date

\* taskParser.ts buildRolloverSection: the lines of the section ('' is no line at all)
buildRolloverSection(uncompletedTasks) ==
    IF uncompletedTasks = <<>> THEN <<>>
    ELSE LET sorted == sortTasksByPriority(uncompletedTasks)
         IN  [k \in 1..Len(sorted) |-> formatTaskLine(sorted[k], FALSE)]

\* ------------------------------------------------------------- file names
OtherFile == "notes.md"                      \* a markdown file that is no period document
DailyName(d) == DateLabels[d] \o ".md"
DailyNames == {DailyName(d) : d \in NoteDays}

\* extension.ts SAMPLE_NOTE_FILENAME: a period document of the year 2000
SAMPLE_NOTE_FILENAME == "2000-01-01.md"

\* the date regex of utils.getDateRegex applied to a file name
IsDailyName(f) == f \in DailyNames \cup {SAMPLE_NOTE_FILENAME}

\* the day a period document is dated, 0 for the sample note, which is older than all
DayOf(f) == IF f = SAMPLE_NOTE_FILENAME THEN 0 ELSE CHOOSE d \in NoteDays : DailyName(d) = f
NoteOfDay(d) == IF d = 0 THEN SAMPLE_NOTE_FILENAME ELSE DailyName(d)

\* path.basename(document.fileName, '.md')
basename(f) ==
    IF f = SAMPLE_NOTE_FILENAME THEN "2000-01-01"
    ELSE IF IsDailyName(f) THEN DateLabels[DayOf(f)] ELSE "notes"

\* ------------------------------------------------------------ drawn documents
D1 == DateLabels[1]
D2 == DateLabels[2]

\* the lines documents are drawn from: task lines in and out of canonical form, with
\* and without tokens, blank placeholders, and lines that are no tasks
LexLines ==
    { <<"-", " ", "[ ]", " ", "Buy", " ", "milk">>,
      <<"-", " ", "[x]", " ", "(A)", " ", "Fix", " ", "+Alpha">>,
      <<"-", " ", "[ ]", " ", "(B)", " ", "Call", " ", "@home", " ", "id:", "abc", " ", "cd:", D1>>,
      <<"-", " ", "[X]", " ", "Done", " ", "id:", "abd", " ", "cd:", D2>>,
      <<"-", " ", "[ ]", " ", "id:", "abc", " ", "(B)", " ", "Draft", " ", " ", "due:", D2>>,
      <<"-", " ", "[ ]", " ", "Undo", " ", "dd:", D1>>,
      <<"-", " ", "[ ]", " ", "dd:", D1>>,
      <<"-", " ", "[ ]", " ", "Dup", " ", "id:", "abc", " ", "id:", "abd">>,
      <<"##", " ", "Notes">>,
      <<"-", " ", "[ ]", " ">>,
      <<"see", " ", "ID:", "ABC">>,
      <<"-", " ", "[ ]", " ", "(A)", " ", "Paren", " ", "id:", "abc", ")">>,
      <<" ", " ", "-", " ", "[x]", " ", "(C)", " ", "Sub", " ", "~[[2026-02-02]]", " ", "dd:", D1, " ">>,
      <<"-", " ", "[x]", " ", "(B)", " ", " ">>,
      <<"-", " ", "[ ]", " ", "(A)">>,
      <<"-", " ", "[x]", " ", "ID:", "ABC", " ", "Caps">> }

LexDocs == UNION {[1..n -> LexLines] : n \in 0..MaxLines}

\* ------------------------------------------------- the normalizer on its own
NoLast ==
    [op |-> "init", file |-> "", before |-> <<>>, edits |-> {}, known |-> {},
     created |-> FALSE, readOk |-> TRUE, source |-> "", carried |-> <<>>, repeat |-> FALSE,
     target |-> <<>>, arg |-> <<>>, result |-> <<>>, message |-> "", dateFormat |-> ""]

InitNorm ==
    /\ \E doc \in LexDocs : files = [f \in {DailyName(1)} |-> doc]
    /\ today \in 1..MaxDay
    /\ last = NoLast
    /\ existingIds = {}
    /\ newId = ""
    /\ authored = 0
    /\ savedIds = <<>>
    /\ EditorIdle

\* one call of computeTaskNormalizationEdits on the document and the application of
\* the edits it returns
NormalizePass(f) ==
    /\ \E edits \in computeTaskNormalizationEdits(files[f], basename(f), formatToday) :
          /\ files' = [files EXCEPT ![f] = ApplyEdits(files[f], edits)]
          /\ last' = [NoLast EXCEPT !.op = "normalize", !.file = f, !.before = files[f],
                                     !.edits = edits]
    /\ UNCHANGED <<today, existingIds, newId, authored, savedIds, editorVars>>

NextNorm == \E f \in DOMAIN files : NormalizePass(f)

SpecNorm == InitNorm /\ [][NextNorm]_vars

\* C1: after the edits of a pass are applied, a further pass over the result (same
\* file name, same today) can return nothing but the empty edit list
Idempotent ==
    last.op = "normalize" =>
        computeTaskNormalizationEdits(files[last.file], basename(last.file), formatToday) = {{}}

\* a first pass that rewrote a line has been applied
IdempotentWitness ==
    /\ last.op = "normalize"
    /\ last.edits # {}
    /\ files[last.file] # last.before

\* the dd token the normalizer reads on a line it rewrites
DdBefore(line) == stripAndCollectMeta(TASK_LINE_REGEX(line).body).meta.dd

\* C2: after a pass, every task line the pass rewrites (it matches TASK_LINE_REGEX and
\* text is left once the tokens are stripped) parses as a task that has a dd token
\* exactly when it is checked; a checked line without dd gained today's date, a
\* checked line with dd kept it, an unchecked line lost it
DdIffCheckedOnRewrittenLines ==
    last.op = "normalize" =>
        \A k \in 1..Len(last.before) :
            Rewrites(last.before[k]) =>
                LET after == files[last.file][k]
                    t == parseTaskLine(after, basename(last.file))
                IN  /\ IsTaskLine(after)
                    /\ (t.dd # <<>>) <=> t.completed
                    /\ t.completed =>
                          t.dd = (IF DdBefore(last.before[k]) = <<>>
                                  THEN <<formatToday>> ELSE DdBefore(last.before[k]))

\* a pass stamped a checked line that had no dd and stripped dd from an unchecked one
DdIffCheckedWitness ==
    /\ last.op = "normalize"
    /\ \E k \in 1..Len(last.before) :
          /\ Rewrites(last.before[k])
          /\ IsChecked(TASK_LINE_REGEX(last.before[k]).check)
          /\ DdBefore(last.before[k]) = <<>>
          /\ parseTaskLine(files[last.file][k], "").dd = <<formatToday>>
    /\ \E k \in 1..Len(last.before) :
          /\ Rewrites(last.before[k])
          /\ ~IsChecked(TASK_LINE_REGEX(last.before[k]).check)
          /\ DdBefore(last.before[k]) # <<>>
          /\ parseTaskLine(files[last.file][k], "").dd = <<>>

\* C2 as stated: after a pass, every line the parser recognizes as a task has a dd
\* token if and only if its checkbox is checked
DdIffCheckedOnEveryTaskLine ==
    last.op = "normalize" =>
        \A k \in 1..Len(files[last.file]) :
            IsTaskLine(files[last.file][k]) =>
                LET t == parseTaskLine(files[last.file][k], basename(last.file))
                IN  (t.dd # <<>>) <=> t.completed

\* the tokens the normalizer reads on a task line
MetaOf(line) == stripAndCollectMeta(TASK_LINE_REGEX(line).body).meta

\* ------------------------------------- the normalizer on any markdown document
\* computeTaskNormalizationEdits takes the document as its argument: here it is
\* applied to a drawn document that is a period document or another markdown file
InitNormAny ==
    /\ \E doc \in LexDocs, f \in {DailyName(1), OtherFile} : files = [g \in {f} |-> doc]
    /\ today \in 1..MaxDay
    /\ last = NoLast
    /\ existingIds = {}
    /\ newId = ""
    /\ authored = 0
    /\ savedIds = <<>>
    /\ EditorIdle

SpecNormAny == InitNormAny /\ [][NextNorm]_vars

\* the cd token the normalizer reads on a line
CdOf(line) == stripAndCollectMeta(TASK_LINE_REGEX(line).body).meta.cd

RECURSIVE MetaTokens(_, _)
MetaTokens(s, i) ==
    IF i > Len(s) THEN <<>>
    ELSE LET n == META_TOKEN_REGEX(s, i)
         IN  IF n = 0 THEN MetaTokens(s, i + 1)
             ELSE <<[at |-> i, key |-> KeyOf(s[i]), len |-> n]>> \o MetaTokens(s, i + n + 1)

KeyRank(key) == CASE key = "id" -> 1 [] key = "cd" -> 2 [] key = "due" -> 3 [] OTHER -> 4

\* the tokens of the line are its suffix: text, then for each token one space and the
\* token, in the order id, cd, due, dd, no key twice, nothing after the last value
TokensFormSuffix(line) ==
    LET toks == MetaTokens(line, 1)
    IN  /\ toks # <<>>
        /\ toks[1].at >= 3
        /\ line[toks[1].at - 1] = Space
        /\ line[toks[1].at - 2] # Space
        /\ \A n \in 1..(Len(toks) - 1) :
              /\ line[toks[n].at + toks[n].len + 1] = Space
              /\ toks[n + 1].at = toks[n].at + toks[n].len + 2
              /\ KeyRank(toks[n].key) < KeyRank(toks[n + 1].key)
        /\ toks[Len(toks)].at + toks[Len(toks)].len = Len(line)

\* C12: after a pass, in every task line with a non-empty body the metadata tokens
\* are the suffix of the line, in the order id, cd, due, dd, each key at most once,
\* separated by single spaces, and none is left inside the text; also when the tokens
\* were typed earlier in the line, a key was repeated or written in upper case
TokensAreCanonicalSuffix ==
    last.op = "normalize" =>
        \A k \in 1..Len(last.before) :
            (Rewrites(last.before[k]) \/ Rewrites(files[last.file][k]))
                => TokensFormSuffix(files[last.file][k])

\* a pass rewrote a line whose tokens were not its suffix, with a key in upper case
\* typed before the text, and a line that repeated a key
TokensAreCanonicalSuffixWitness ==
    /\ last.op = "normalize"
    /\ \E k \in 1..Len(last.before) :
          /\ Rewrites(last.before[k])
          /\ ~TokensFormSuffix(last.before[k])
          /\ \E i \in 1..Len(last.before[k]) :
                /\ last.before[k][i] = "ID:"
                /\ \E j \in (i + 1)..Len(last.before[k]) : last.before[k][j] = "Caps"
          /\ files[last.file][k] # last.before[k]
    /\ \E k \in 1..Len(last.before) :
          /\ Rewrites(last.before[k])
          /\ \E a, b \in 1..Len(MetaTokens(last.before[k], 1)) :
                a # b /\ MetaTokens(last.before[k], 1)[a].key = MetaTokens(last.before[k], 1)[b].key
          /\ files[last.file][k] # last.before[k]

\* the id, cd and due values the normalizer reads on a task line (the last occurrence
\* of a repeated key), all absent on a line that is no task
FrameMeta(line) ==
    IF TASK_LINE_REGEX(line).ok
    THEN [id |-> MetaOf(line).id, cd |-> MetaOf(line).cd, due |-> MetaOf(line).due]
    ELSE [id |-> <<>>, cd |-> <<>>, due |-> <<>>]

\* C13: for every task line, a pass leaves the value of an id, cd and due token that
\* is already present unchanged, adds no due token to a line that has none and
\* removes no due value
PresentValuesKept ==
    last.op = "normalize" =>
        \A k \in 1..Len(last.before) :
            LET b == FrameMeta(last.before[k])
                a == FrameMeta(files[last.file][k])
            IN  /\ b.id # <<>> => a.id = b.id
                /\ b.cd # <<>> => a.cd = b.cd
                /\ a.due = b.due

\* a pass rewrote a line that had an id and a cd other than the date of its document,
\* and a line that had an id and a due date but no cd
PresentValuesKeptWitness ==
    /\ last.op = "normalize"
    /\ basename(last.file) = D1
    /\ \E k, j \in 1..Len(last.before) :
          /\ files[last.file][k] # last.before[k]
          /\ FrameMeta(last.before[k]).id # <<>>
          /\ FrameMeta(last.before[k]).cd = <<D2>>
          /\ files[last.file][j] # last.before[j]
          /\ FrameMeta(last.before[j]).id # <<>>
          /\ FrameMeta(last.before[j]).due # <<>>
          /\ FrameMeta(last.before[j]).cd = <<>>

\* the atoms of s that are no spaces
NonSpace(s) == Pick(s, {i \in 1..Len(s) : s[i] # Space})

\* the words of a line that belong to no metadata token: list marker, checkbox,
\* priority marker, text, tags and decorators, in order
NonTokenWords(line) == NonSpace(ReplaceMetaTokens(line, 1, <<>>, NoMeta).kept)

\* the decorators of a line, in order
Decorators(line) == Pick(line, {i \in 1..Len(line) : line[i] \in DecoAtoms})

\* a task line with a non-empty body: after the checkbox there is a word that belongs
\* to no token
TaskWithBody(line) ==
    /\ TASK_LINE_REGEX(line).ok
    /\ \E i \in 1..Len(NonTokenWords(line)) :
          /\ NonTokenWords(line)[i] \in CheckAtoms
          /\ i < Len(NonTokenWords(line))

InitGen ==
    /\ existingIds \in SUBSET IdUniverse
    /\ newId = ""
    /\ last = NoLast
    /\ files = <<>>
    /\ today = 1
    /\ authored = 0
    /\ savedIds = <<>>
    /\ EditorIdle

\* one call of generateShortId: the result is returned and added to the set
GenerateShortId ==
    /\ \E c \in generateShortId(existingIds) :
          /\ newId' = c
          /\ existingIds' = existingIds \cup {c}
          /\ last' = [NoLast EXCEPT !.op = "generate", !.known = existingIds]
    /\ UNCHANGED <<files, today, authored, savedIds, editorVars>>

NextGen == GenerateShortId

SpecGen == InitGen /\ [][NextGen]_vars

\* C3: every identifier generateShortId returns is absent from the set of identifiers
\* known before the call, on every path including the fallback
ReturnedIdIsNew == last.op = "generate" => newId \notin last.known

\* ------------------------------------------------------------ the notes folder
TodoFile == "todo.md"

\* the directory with one file written
Put(dir, f, content) == [g \in DOMAIN dir \cup {f} |-> IF g = f THEN content ELSE dir[g]]

\* utils.processNoteFiles: the names that match the date regex, newest first
processNoteFiles(names) ==
    LET D == {DayOf(f) : f \in {g \in names : IsDailyName(g)}}
    IN  [n \in 1..Cardinality(D) |->
            NoteOfDay(CHOOSE d \in D : Cardinality({e \in D : e > d}) = n - 1)]

\* the notes getTasksToRollover chooses from: all but today's, newest first
RolloverCandidates(dir, todayFilename) ==
    LET notes == processNoteFiles(DOMAIN dir)
    IN  Pick(notes, {k \in 1..Len(notes) : notes[k] # todayFilename})

\* extension.ts getTasksToRollover; readOk: readdir and readFile succeed
getTasksToRollover(dir, todayFilename, readOk) ==
    LET notes == RolloverCandidates(dir, todayFilename)
    IN  IF notes = <<>> \/ ~readOk THEN <<>>
        ELSE getUncompletedTasks(
                parseTasksFromContent(dir[notes[1]], basename(notes[1])))

\* `# Daily Note - ${today}\n\n## Tasks\n\n${rolloverSection}- [ ] \n\n## Notes\n\n`
NoteTemplate(dateLabel, rolloverSection) ==
    << <<"#", " ", "Daily", " ", "Note", " ", "-", " ", dateLabel>>, <<>>,
       <<"##", " ", "Tasks">>, <<>> >>
    \o rolloverSection
    \o << <<"-", " ", "[ ]", " ">>, <<>>, <<"##", " ", "Notes">>, <<>>, <<>> >>

\* a scan that reads every markdown file of the folder, todo.md included
scanAllTasks_everyFile(dir) ==
    LET notes == processNoteFiles(DOMAIN dir)
                    \o (IF TodoFile \in DOMAIN dir THEN <<TodoFile>> ELSE <<>>)
    IN  Flatten([n \in 1..Len(notes) |->
                    parseTasksFromContent(dir[notes[n]], basename(notes[n]))])

\* extension.ts scanAllTasks: the tasks of every daily note, newest note first
scanAllTasks(dir) ==
    LET notes == processNoteFiles(DOMAIN dir)
    IN  Flatten([n \in 1..Len(notes) |->
                    parseTasksFromContent(dir[notes[n]], basename(notes[n]))])

\* extractTags(text, /\+(\S+)/g): the project names of a task text, in order
ProjectName(a) ==
    CASE a = "+Alpha" -> "Alpha" [] a = "+Beta" -> "Beta" [] a = "+Zeta" -> "Zeta"
      [] a = "+Ungrouped" -> "Ungrouped" [] OTHER -> ""
extractProjects(text) ==
    LET K == {k \in 1..Len(text) : ProjectName(text[k]) # ""}
    IN  [n \in 1..Cardinality(K) |-> ProjectName(Pick(text, K)[n])]

\* the keys a task is filed under in groupTasksByProject
GroupKeys(task) ==
    IF extractProjects(task.text) = <<>> THEN <<"Ungrouped">> ELSE extractProjects(task.text)

\* taskParser.ts groupTasksByProject: the group of one key, in task order
groupTasksByProject(tasks, key) ==
    Flatten([k \in 1..Len(tasks) |->
                [n \in 1..Cardinality({j \in 1..Len(GroupKeys(tasks[k])) :
                                          GroupKeys(tasks[k])[j] = key}) |-> tasks[k]]])

\* [...grouped.keys()]: the keys of the Map in insertion order, from task k on
RECURSIVE KeysFrom(_, _, _)
KeysFrom(tasks, k, keys) ==
    IF k > Len(tasks) THEN keys
    ELSE LET own == GroupKeys(tasks[k])
             fresh == Pick(own, {j \in 1..Len(own) :
                            /\ \A i \in 1..Len(keys) : keys[i] # own[j]
                            /\ \A i \in 1..(j - 1) : own[i] # own[j]})
         IN  KeysFrom(tasks, k + 1, keys \o fresh)

GroupKeyOrder(tasks) == KeysFrom(tasks, 1, <<>>)

\* a.localeCompare(b) on project names: negative, zero or positive by dictionary order
Collation == <<"Alpha", "Beta", "Ungrouped", "Zeta">>
localeCompare(a, b) ==
    (CHOOSE i \in 1..Len(Collation) : Collation[i] = a)
        - (CHOOSE i \in 1..Len(Collation) : Collation[i] = b)

\* a comparator that has no special case for "Ungrouped"
CompareKeys_byNameOnly(a, b) == localeCompare(a, b)

\* the comparator of the key sort in formatTodoMd and in TodoTreeProvider.getChildren
CompareKeys(a, b) ==
    IF a = "Ungrouped" THEN 1
    ELSE IF b = "Ungrouped" THEN -1
    ELSE localeCompare(a, b)

\* keys.sort(comparator), for keys that are pairwise different
SortKeys(keys) ==
    [n \in 1..Len(keys) |->
        keys[CHOOSE i \in 1..Len(keys) :
                Cardinality({j \in 1..Len(keys) : j # i /\ CompareKeys(keys[j], keys[i]) < 0})
                    = n - 1]]

\* taskParser.ts formatTodoMd
formatTodoMd(tasks) ==
    LET keys == SortKeys(GroupKeyOrder(tasks))
        Section(project) ==
            LET projectTasks == sortTasksByPriority(groupTasksByProject(tasks, project))
                label == IF project = "Ungrouped" THEN project ELSE "+" \o project
            IN  << <<"##", " ", label>>, <<>> >>
                \o [k \in 1..Len(projectTasks) |-> formatTaskLine(projectTasks[k], TRUE)]
                \o << <<>> >>
    IN  << <<"<!-- GENERATED FILE -->">>, <<>>, <<"#", " ", "Tasks">>, <<>> >>
        \o Flatten([k \in 1..Len(keys) |-> Section(keys[k])])

\* TodoTreeProvider.getChildren at the root: the project nodes of the open tasks
TodoTreeRoot(tasks) == SortKeys(GroupKeyOrder(getUncompletedTasks(tasks)))

\* extension.ts writeTodoFile: nothing is written when there is no task at all
writeTodoFile(dir) ==
    IF scanAllTasks(dir) = <<>> THEN dir ELSE Put(dir, TodoFile, formatTodoMd(scanAllTasks(dir)))

\* ------------------------------------------------------------- the workspace
\* the ids of the tasks of a document, as the parser reads them
IdsOfDoc(doc) ==
    {parseTaskLine(doc[k], "").id : k \in {j \in 1..Len(doc) : IsTaskLine(doc[j])}} \ {<<>>}

\* the lines the user types: tasks without tokens, so that every id in the workspace
\* is one the program wrote
UserLines ==
    { <<"-", " ", "[ ]", " ", "Buy", " ", "milk">>,
      <<"-", " ", "[x]", " ", "(A)", " ", "Fix", " ", "+Alpha">>,
      <<"-", " ", "[ ]", " ", "(B)", " ", "Call", " ", "@home">> }

Init ==
    /\ files = <<>>
    /\ today = 1
    /\ last = NoLast
    /\ existingIds = {}
    /\ newId = ""
    /\ authored = 0
    /\ savedIds = <<>>
    /\ EditorIdle

\* the user types a line at the end of a document (a daily note that exists, or the
\* other markdown file, which the first line creates); nothing has saved it yet
EditFile(f, line) ==
    /\ authored < MaxEdits
    /\ f \in DOMAIN files \/ f = OtherFile
    /\ f # TodoFile
    /\ files' = Put(files, f, (IF f \in DOMAIN files THEN files[f] ELSE <<>>) \o <<line>>)
    /\ authored' = authored + 1
    /\ last' = [NoLast EXCEPT !.op = "edit", !.file = f]
    /\ UNCHANGED <<today, existingIds, newId, savedIds, editorVars>>

\* one normalization pass applied: the documents it can leave
Pass(doc, f) ==
    {ApplyEdits(doc, edits) :
        edits \in computeTaskNormalizationEdits(doc, basename(f), formatToday)}

\* extension.ts isDailyNoteDocument, for the markdown files of the notes folder
isDailyNoteDocument(f) == IsDailyName(f)

\* the user saves a document: onWillSaveTextDocument contributes the edits of a pass;
\* onDidSaveTextDocument runs normalizeDailyNoteMetadata, whose applyEdit + save runs
\* the will-save pass once more, and then processUpdatedTodosFromDocument rewrites
\* todo.md.  A document that is no daily note is written as it is.
Save(f) ==
    /\ f \in DOMAIN files
    /\ IF isDailyNoteDocument(f)
       THEN /\ \E d1 \in Pass(files[f], f) : \E d2 \in Pass(d1, f) : \E d3 \in Pass(d2, f) :
                  files' = writeTodoFile(Put(files, f, d3))
            /\ last' = [NoLast EXCEPT !.op = "save", !.file = f]
            /\ savedIds' = savedIds
       ELSE /\ files' = files
            /\ last' = [NoLast EXCEPT !.op = "save", !.file = f,
                          !.repeat = f \in DOMAIN savedIds,
                          !.known = IF f \in DOMAIN savedIds THEN savedIds[f] ELSE {},
                          !.target = IF DailyName(today) \in DOMAIN files
                                     THEN files[DailyName(today)] ELSE <<>>]
            /\ savedIds' = Put(savedIds, f,
                               (IF f \in DOMAIN savedIds THEN savedIds[f] ELSE {})
                                   \cup IdsOfDoc(files[f]))
    /\ UNCHANGED <<today, existingIds, newId, authored, editorVars>>

\* dailyNotes.openNote without a file name: today's note, created with the rollover
\* section when it does not exist
OpenNote ==
    LET todayFile == formatToday \o ".md"
        notes == RolloverCandidates(files, todayFile)
    IN  /\ IF todayFile \notin DOMAIN files
           THEN \E readOk \in BOOLEAN :
                  LET rollovers == getTasksToRollover(files, todayFile, readOk)
                      rolloverSection == buildRolloverSection(rollovers)
                  IN  /\ files' = Put(files, todayFile, NoteTemplate(formatToday, rolloverSection))
                      /\ last' = [NoLast EXCEPT !.op = "openNote", !.file = todayFile,
                                    !.created = TRUE, !.readOk = readOk,
                                    !.source = IF notes = <<>> THEN "" ELSE notes[1],
                                    !.carried = rolloverSection]
           ELSE /\ files' = files
                /\ last' = [last EXCEPT !.op = "openNote", !.file = todayFile,
                              !.created = FALSE,
                              !.repeat = last.op = "openNote" /\ last.file = todayFile]
        /\ UNCHANGED <<today, existingIds, newId, authored, savedIds, editorVars>>

\* extension.ts openOrCreateDailyNoteForDate: the note of a date, created from the
\* plain template when it does not exist
openOrCreateDailyNoteForDate(op, d) ==
    LET f == DateLabels[d] \o ".md"
    IN  /\ files' = IF f \in DOMAIN files THEN files
                    ELSE Put(files, f, NoteTemplate(DateLabels[d], <<>>))
        /\ last' = [NoLast EXCEPT !.op = op, !.file = f, !.created = f \notin DOMAIN files]
        /\ UNCHANGED <<today, existingIds, newId, authored, savedIds, editorVars>>

\* dailyNotes.calendarToday
CalendarToday == openOrCreateDailyNoteForDate("calendarToday", today)

\* the calendar webview's 'today' message
WebviewToday == openOrCreateDailyNoteForDate("webviewToday", today)

\* the calendar webview's 'openDate' message
WebviewOpenDate(d) == openOrCreateDailyNoteForDate("webviewOpenDate", d)

\* dailyNotes.openNoteForDate with a valid date
OpenNoteForDate(d) == openOrCreateDailyNoteForDate("openNoteForDate", d)

\* midnight passes
NextDay ==
    /\ today < MaxDay
    /\ today' = today + 1
    /\ last' = [NoLast EXCEPT !.op = "nextDay"]
    /\ UNCHANGED <<files, existingIds, newId, authored, savedIds, editorVars>>

Next ==
    \/ \E f \in DailyNames \cup {OtherFile}, line \in UserLines : EditFile(f, line)
    \/ \E f \in DOMAIN files : Save(f)
    \/ OpenNote
    \/ CalendarToday
    \/ WebviewToday
    \/ \E d \in NoteDays : WebviewOpenDate(d)
    \/ \E d \in NoteDays : OpenNoteForDate(d)
    \/ NextDay

Spec == Init /\ [][Next]_vars

\* ---------------------------------------------------- properties of the workspace
Range(seq) == {seq[k] : k \in 1..Len(seq)}

\* the daily notes dated before today, and the latest of them
EarlierNotes == {f \in DOMAIN files : IsDailyName(f) /\ DayOf(f) < today}
LatestEarlier == CHOOSE f \in EarlierNotes : \A g \in EarlierNotes : DayOf(g) <= DayOf(f)

\* what rollover is to carry from a note: a line for each of its uncompleted tasks
RolloverOf(f) ==
    buildRolloverSection(getUncompletedTasks(parseTasksFromContent(files[f], basename(f))))

\* C4: after any sequence of saves and creations of today's note with rollover, no two
\* task lines of the period documents, in one document or in two, carry the same id
WorkspaceIdsUnique ==
    \A f, g \in {h \in DOMAIN files : IsDailyName(h)} :
        \A k \in 1..Len(files[f]), j \in 1..Len(files[g]) :
            (/\ <<f, k>> # <<g, j>>
             /\ IsTaskLine(files[f][k]) /\ IsTaskLine(files[g][j])
             /\ parseTaskLine(files[f][k], "").id # <<>>)
            => parseTaskLine(files[f][k], "").id # parseTaskLine(files[g][j], "").id

\* C5: whichever command creates today's note, its first content includes the rollover
\* of the previous note's uncompleted tasks (when that note can be read)
CreationIncludesRollover ==
    (last.created /\ last.file = DailyName(today) /\ last.readOk /\ EarlierNotes # {})
        => Range(RolloverOf(LatestEarlier)) \subseteq Range(files[last.file])

\* C6: when openNote creates today's note, what is carried comes from the note with
\* the latest date strictly before today, never from a later one; with no earlier
\* note, or an unreadable one, nothing is carried
RolloverSourceIsLatestEarlier ==
    (last.op = "openNote" /\ last.created)
        => last.carried = IF EarlierNotes = {} \/ ~last.readOk THEN <<>>
                          ELSE RolloverOf(LatestEarlier)

\* C7: a task line written into today's note by rollover carries no id, cd, due or
\* dd token
CarriedLinesHaveNoTokens ==
    (last.op = "openNote" /\ last.created /\ last.source \in EarlierNotes)
        => \A k \in 1..Len(last.carried) : MetaOf(last.carried[k]) = NoMeta

\* how many times the line bears the decorator ~[[target]]
DecoCount(line, target) ==
    Cardinality({i \in 1..Len(line) : line[i] = "~[[" \o target \o "]]"})

\* C8: after openNote has run twice in succession for the same day, every uncompleted
\* task of the source note bears exactly one ~[[today]] decorator and has exactly one
\* carried copy in today's note
RollForwardTwiceMarksOnce ==
    (last.op = "openNote" /\ last.repeat /\ last.readOk /\ last.source \in EarlierNotes)
        => \A k \in 1..Len(files[last.source]) :
              (/\ IsTaskLine(files[last.source][k])
               /\ ~parseTaskLine(files[last.source][k], "").completed)
              => /\ DecoCount(files[last.source][k], formatToday) = 1
                 /\ Cardinality({j \in 1..Len(files[last.file]) :
                        files[last.file][j] =
                            formatTaskLine(parseTaskLine(files[last.source][k], ""), FALSE)}) = 1

\* C10: once a save of any markdown document has completed, every task line of it
\* with a non-empty body carries an id token and a cd token
SaveNormalizesEveryMarkdown ==
    last.op = "save" =>
        \A k \in 1..Len(files[last.file]) :
            Rewrites(files[last.file][k]) =>
                /\ MetaOf(files[last.file][k]).id # <<>>
                /\ MetaOf(files[last.file][k]).cd # <<>>

\* --------------------------------------------------- the rollover on its own
\* one earlier note with drawn content, and today's note not yet created
InitRoll ==
    /\ \E d \in 1..(MaxDay - 1), doc \in LexDocs : files = [f \in {DailyName(d)} |-> doc]
    /\ today = MaxDay
    /\ last = NoLast
    /\ existingIds = {}
    /\ newId = ""
    /\ authored = 0
    /\ savedIds = <<>>
    /\ EditorIdle

NextRoll == OpenNote

SpecRoll == InitRoll /\ [][NextRoll]_vars

\* the uncompleted tasks of the source note, in source order
SourceUncompleted ==
    getUncompletedTasks(parseTasksFromContent(files[last.source], basename(last.source)))

\* the line of a carried task up to its tokens: unchecked, priority, text with its tags
CarriedHead(task) ==
    <<"-", Space, "[ ]", Space>>
        \o (IF task.priority # "" THEN <<task.priority, Space>> ELSE <<>>) \o task.text

\* the ways to pair the lines of the section with the tasks, one line to one task
Pairings(n) == {p \in [1..n -> 1..n] : \A a, b \in 1..n : p[a] = p[b] => a = b}

\* C9: the rollover section has one unchecked line for each uncompleted task of the
\* source note and none for a completed one, each with the task's priority, text and
\* tags, in priority order (A first, no priority last, equal priorities in source
\* order); with no uncompleted task the section is empty
RolloverSectionSorted ==
    (last.op = "openNote" /\ last.created /\ last.readOk /\ last.source # "")
        => /\ Len(last.carried) = Len(SourceUncompleted)
           /\ \E p \in Pairings(Len(last.carried)) :
                 /\ \A k \in 1..Len(last.carried) :
                       IsPrefix(CarriedHead(SourceUncompleted[p[k]]), last.carried[k])
                 /\ \A k, j \in 1..Len(last.carried) :
                       k < j =>
                          LET rk == PriorityRank(SourceUncompleted[p[k]].priority)
                              rj == PriorityRank(SourceUncompleted[p[j]].priority)
                          IN  rk < rj \/ (rk = rj /\ p[k] < p[j])

\* a section that had to reorder the source: the first uncompleted task ranks after
\* the second, and the section begins with the second
RolloverSectionWitness ==
    /\ last.op = "openNote" /\ last.created /\ last.readOk /\ last.source # ""
    /\ Len(last.carried) >= 2
    /\ PriorityRank(SourceUncompleted[1].priority) > PriorityRank(SourceUncompleted[2].priority)
    /\ last.carried[1] = formatTaskLine(SourceUncompleted[2], FALSE)

\* ------------------------------------- saves of a document that is no period document
\* the lines typed into the other markdown file: a task that bears an id, and one
\* that bears none
MirrorLines ==
    { <<"-", " ", "[ ]", " ", "Ship", " ", "id:", "abd">>,
      <<"-", " ", "[ ]", " ", "Buy", " ", "milk">> }

\* today's note exists; the other markdown file is empty or holds a task with an id
InitMirror ==
    /\ \E doc \in {<<>>, << <<"-", " ", "[ ]", " ", "Old", " ", "id:", "abc">> >>} :
          files = Put([f \in {DailyName(1)} |-> NoteTemplate(DateLabels[1], <<>>)],
                      OtherFile, doc)
    /\ today = 1
    /\ last = NoLast
    /\ existingIds = {}
    /\ newId = ""
    /\ authored = 0
    /\ savedIds = <<>>
    /\ EditorIdle

\* the window is reloaded: activate runs again with fresh in-memory sets; the files
\* stay as they are
Restart ==
    /\ last' = [NoLast EXCEPT !.op = "restart"]
    /\ UNCHANGED <<files, today, existingIds, newId, authored, savedIds, editorVars>>

NextMirror ==
    \/ \E line \in MirrorLines : EditFile(OtherFile, line)
    \/ \E f \in DOMAIN files : Save(f)
    \/ OpenNote
    \/ NextDay
    \/ Restart

SpecMirror == InitMirror /\ [][NextMirror]_vars

\* C15: the first save of a document that is no period document mirrors no task into
\* today's note; each later save mirrors exactly the tasks whose id is present now
\* and was seen by no earlier save of the document; an id is mirrored at most once,
\* also after a restart
SaveMirrorsNewTasksOnce ==
    (/\ last.op = "save"
     /\ last.file = OtherFile
     /\ DailyName(today) \in DOMAIN files)
        => IdsOfDoc(files[DailyName(today)]) \ IdsOfDoc(last.target)
              = IF last.repeat THEN IdsOfDoc(files[last.file]) \ last.known ELSE {}

\* ------------------------------------------- grouping, sorting and rendering tasks
MaxTasks == 3      \* tasks of the list handed to the sort, the grouping and the renderers

\* the task lines the lists are parsed from: every priority and none, open and done,
\* no tag, one tag, two tags, a tag written twice, and the tag +Ungrouped
AggLines ==
    { <<"-", " ", "[ ]", " ", "(C)", " ", "Plan", " ", "+Zeta">>,
      <<"-", " ", "[ ]", " ", "Buy", " ", "milk">>,
      <<"-", " ", "[ ]", " ", "(A)", " ", "Fix", " ", "+Alpha">>,
      <<"-", " ", "[ ]", " ", "(B)", " ", "Call", " ", "+Alpha", " ", "+Beta">>,
      <<"-", " ", "[x]", " ", "(A)", " ", "Done", " ", "+Beta">>,
      <<"-", " ", "[ ]", " ", "Twice", " ", "+Alpha", " ", "+Alpha">>,
      <<"-", " ", "[ ]", " ", "(B)", " ", "Misc", " ", "+Ungrouped">>,
      <<"-", " ", "[ ]", " ", "(A)", " ", "Also">> }

InitTasks ==
    /\ \E n \in 0..MaxTasks : \E doc \in [1..n -> AggLines] :
          files = [f \in {DailyName(1)} |-> doc]
    /\ today = 1
    /\ last = NoLast
    /\ existingIds = {}
    /\ newId = ""
    /\ authored = 0
    /\ savedIds = <<>>
    /\ EditorIdle

\* the Task[] the callers hold
TaskList == parseTasksFromContent(files[DailyName(1)], D1)

\* sortTasksByPriority(tasks): the result, and the caller's array after the call, which
\* the function copies ([...tasks]) before it sorts
SortTasks ==
    /\ last' = [NoLast EXCEPT !.op = "sort", !.arg = TaskList,
                               !.result = sortTasksByPriority(TaskList)]
    /\ UNCHANGED <<files, today, existingIds, newId, authored, savedIds, editorVars>>

\* groupTasksByProject(tasks): the Map, key -> group
GroupTasks ==
    /\ last' = [NoLast EXCEPT !.op = "group", !.arg = TaskList,
                  !.result = [key \in {GroupKeyOrder(TaskList)[i] :
                                          i \in 1..Len(GroupKeyOrder(TaskList))}
                                |-> groupTasksByProject(TaskList, key)]]
    /\ UNCHANGED <<files, today, existingIds, newId, authored, savedIds, editorVars>>

\* formatTodoMd(tasks): the lines of the summary
FormatTodo ==
    /\ last' = [NoLast EXCEPT !.op = "format", !.arg = TaskList,
                               !.result = formatTodoMd(TaskList)]
    /\ UNCHANGED <<files, today, existingIds, newId, authored, savedIds, editorVars>>

\* TodoTreeProvider.getChildren(): the project nodes of the live tree
TreeRoot ==
    /\ last' = [NoLast EXCEPT !.op = "tree", !.arg = TaskList,
                               !.result = TodoTreeRoot(TaskList)]
    /\ UNCHANGED <<files, today, existingIds, newId, authored, savedIds, editorVars>>

NextTasks == SortTasks \/ GroupTasks \/ FormatTodo \/ TreeRoot

SpecTasks == InitTasks /\ [][NextTasks]_vars

\* how often x occurs in seq
Occ(seq, x) == Cardinality({i \in 1..Len(seq) : seq[i] = x})

\* the project names a task text is tagged with
TagsOf(task) == {ProjectName(task.text[i]) : i \in 1..Len(task.text)} \ {""}

\* C16: in the Map of groupTasksByProject a task with project tags is once in the
\* group of each of its tags and in no other group, and the group Ungrouped holds
\* exactly the tasks that have no project tag
GroupedOncePerTag ==
    last.op = "group" =>
        \A k \in 1..Len(last.arg) : \A key \in {"Alpha", "Beta", "Zeta", "Ungrouped"} :
            LET group == IF key \in DOMAIN last.result THEN last.result[key] ELSE <<>>
                member == IF key = "Ungrouped" THEN TagsOf(last.arg[k]) = {}
                          ELSE key \in TagsOf(last.arg[k])
            IN  Occ(group, last.arg[k]) = IF member THEN Occ(last.arg, last.arg[k]) ELSE 0

\* the project names of the section headings of a rendered summary, top to bottom
SectionNames(todo) ==
    LET H == {k \in 1..Len(todo) : Len(todo[k]) = 3 /\ todo[k][1] = "##"}
    IN  [n \in 1..Cardinality(H) |->
            LET label == Pick(todo, H)[n][3]
            IN  IF label = "Ungrouped" THEN label ELSE ProjectName(label)]

\* names in dictionary order, except that Ungrouped, when present, is the last
AlphabeticalUngroupedLast(names) ==
    \A i, j \in 1..Len(names) :
        i < j => /\ names[i] # "Ungrouped"
                 /\ names[j] = "Ungrouped" \/ localeCompare(names[i], names[j]) < 0

\* the group names the grouping of a task list has
GroupNames(tasks) ==
    UNION {IF TagsOf(tasks[k]) = {} THEN {"Ungrouped"} ELSE TagsOf(tasks[k]) :
              k \in 1..Len(tasks)}

\* C17: in the rendered todo.md and at the root of the live tree there is one section
\* for each group, the sections are in alphabetical order of project name and the
\* section Ungrouped, when present, is the last
SectionsAlphabeticalUngroupedLast ==
    /\ last.op = "format" =>
          /\ AlphabeticalUngroupedLast(SectionNames(last.result))
          /\ Range(SectionNames(last.result)) = GroupNames(last.arg)
    /\ last.op = "tree" =>
          /\ AlphabeticalUngroupedLast(last.result)
          /\ Range(last.result) = GroupNames(getUncompletedTasks(last.arg))

\* a summary whose groups were met in the order Zeta, Ungrouped, Alpha
SectionsAlphabeticalWitness ==
    /\ last.op = "format"
    /\ GroupKeyOrder(last.arg) = <<"Zeta", "Ungrouped", "Alpha">>
    /\ SectionNames(last.result) = <<"Alpha", "Zeta", "Ungrouped">>

\* the place of a priority letter in the alphabet, 0 for a task without priority
LetterIndex(priority) ==
    CASE priority = "(A)" -> 1 [] priority = "(B)" -> 2 [] priority = "(C)" -> 3 [] OTHER -> 0

\* C18: the result of sortTasksByPriority is a permutation of its input, the lettered
\* priorities in the order A to Z, every task without priority after every task with
\* one, tasks of equal priority in their input order; the input list is as it was
SortIsStablePermutation ==
    last.op = "sort" =>
        /\ last.arg = TaskList
        /\ Len(last.result) = Len(last.arg)
        /\ \E p \in Pairings(Len(last.arg)) :
              /\ \A k \in 1..Len(last.arg) : last.result[k] = last.arg[p[k]]
              /\ \A k, j \in 1..Len(last.arg) :
                    k < j =>
                       LET a == LetterIndex(last.result[k].priority)
                           b == LetterIndex(last.result[j].priority)
                       IN  /\ b # 0 => (a # 0 /\ a <= b)
                           /\ a = b => p[k] < p[j]

\* the list C, none, A was sorted into A, C, none
SortIsStablePermutationWitness ==
    /\ last.op = "sort"
    /\ Len(last.arg) = 3
    /\ last.arg[1].priority = "(C)"
    /\ last.arg[2].priority = ""
    /\ last.arg[3].priority = "(A)"
    /\ last.result = <<last.arg[3], last.arg[1], last.arg[2]>>

\* ------------------------------------------- the aggregator in the notes folder
\* the lines of the period documents: two tasks that are already stamped, so that a
\* save leaves them as they are, and a line that is no task
SummaryLines ==
    { <<"-", " ", "[ ]", " ", "Buy", " ", "milk", " ", "id:", "abc", " ", "cd:", D1>>,
      <<"-", " ", "[ ]", " ", "(A)", " ", "Fix", " ", "+Alpha", " ", "id:", "abd", " ",
        "cd:", D1>>,
      <<"Notes">> }

\* two period documents and no todo.md yet
InitSummary ==
    /\ \E n1, n2 \in 0..MaxLines :
          \E doc1 \in [1..n1 -> SummaryLines], doc2 \in [1..n2 -> SummaryLines] :
             files = Put([f \in {DailyName(1)} |-> doc1], DailyName(2), doc2)
    /\ today = 2
    /\ last = NoLast
    /\ existingIds = {}
    /\ newId = ""
    /\ authored = 0
    /\ savedIds = <<>>
    /\ EditorIdle

\* the user deletes a line of a period document in the editor
RemoveLine(f, k) ==
    /\ authored < MaxEdits
    /\ f \in DOMAIN files /\ isDailyNoteDocument(f)
    /\ k \in 1..Len(files[f])
    /\ files' = Put(files, f, Pick(files[f], (1..Len(files[f])) \ {k}))
    /\ authored' = authored + 1
    /\ last' = [NoLast EXCEPT !.op = "removeLine", !.file = f]
    /\ UNCHANGED <<today, existingIds, newId, savedIds, editorVars>>

\* dailyNotes.generateTodo: writeTodoFile(true); arg is what the scan returned and
\* repeat tells whether a todo.md was there before
GenerateTodo ==
    /\ files' = writeTodoFile(files)
    /\ last' = [NoLast EXCEPT !.op = "generateTodo", !.arg = scanAllTasks(files),
                               !.repeat = TodoFile \in DOMAIN files]
    /\ UNCHANGED <<today, existingIds, newId, authored, savedIds, editorVars>>

\* todoTreeProvider.refresh(): the view asks getChildren() for the root again
RefreshTodoTree ==
    /\ last' = [NoLast EXCEPT !.op = "refreshTodoTree", !.arg = scanAllTasks(files),
                               !.result = TodoTreeRoot(scanAllTasks(files)),
                               !.repeat = TodoFile \in DOMAIN files]
    /\ UNCHANGED <<files, today, existingIds, newId, authored, savedIds, editorVars>>

NextSummary ==
    \/ \E f \in DOMAIN files : Save(f)
    \/ \E f \in DailyNames, k \in 1..MaxLines : RemoveLine(f, k)
    \/ GenerateTodo
    \/ RefreshTodoTree

SpecSummary == InitSummary /\ [][NextSummary]_vars

\* the task lines of the period documents of a folder, newest document first
PeriodTaskLines(dir) ==
    Flatten([n \in 1..Len(processNoteFiles(DOMAIN dir)) |->
                Pick(dir[processNoteFiles(DOMAIN dir)[n]],
                     {k \in 1..Len(dir[processNoteFiles(DOMAIN dir)[n]]) :
                         IsTaskLine(dir[processNoteFiles(DOMAIN dir)[n]][k])})])

\* C19: when the save handling of a period document is over, todo.md is the summary
\* rendered from the tasks that the period documents hold now, also when the save
\* took the last task away
SummaryCurrentAfterSave ==
    (last.op = "save" /\ isDailyNoteDocument(last.file)) =>
        /\ PeriodTaskLines(files) # <<>> => TodoFile \in DOMAIN files
        /\ TodoFile \in DOMAIN files =>
              files[TodoFile] = formatTodoMd(scanAllTasks(files))

\* C20: a regeneration of the summary or a refresh of the live view leaves every
\* period document as it was, writes no file but todo.md, and reads its tasks from
\* the period documents only, never from todo.md
AggregatorWritesOnlySummary ==
    [][last'.op \in {"generateTodo", "refreshTodoTree"} =>
          /\ \A f \in DOMAIN files \ {TodoFile} : f \in DOMAIN files' /\ files'[f] = files[f]
          /\ DOMAIN files' \subseteq DOMAIN files \cup {TodoFile}
          /\ last'.op = "refreshTodoTree" => files' = files
          /\ Len(last'.arg) = Len(PeriodTaskLines(files))
          /\ \A k \in 1..Len(last'.arg) :
                /\ last'.arg[k].sourceDate \in Range(DateLabels)
                /\ last'.arg[k].rawLine = Trim(PeriodTaskLines(files)[k])]_vars

\* a second regeneration: todo.md was there, with task lines of its own, and tasks
\* were found in the period documents
AggregatorWritesOnlySummaryWitness ==
    /\ last.op = "generateTodo"
    /\ last.repeat
    /\ last.arg # <<>>
    /\ TodoFile \in DOMAIN files
    /\ \E k \in 1..Len(files[TodoFile]) : IsTaskLine(files[TodoFile][k])

\* ------------------------------------------------------- the sample note command
MaxSampleLines == 2     \* the sample note is appended to while it has no more lines than this

\* extension.ts SAMPLE_NOTE_HEADER, SAMPLE_NOTE_INTRO
SAMPLE_NOTE_HEADER == <<"#", " ", "Daily", " ", "Note", " ", "-", " ", "2000-01-01">>
SAMPLE_NOTE_INTRO == <<"This", " ", "is", " ", "a", " ", "sample", " ", "note", ".">>

\* extension.ts SAMPLE_TASKS, one line of each shape the list has: priority with a due
\* token before the tags, a completed task, a task with a context only
SAMPLE_TASKS ==
    << <<"-", " ", "[ ]", " ", "(A)", " ", "Fix", " ", "due:", "2000-01-05", " ",
         "+Alpha", " ", "@home">>,
       <<"-", " ", "[x]", " ", "(C)", " ", "Update", " ", "+Beta">>,
       <<"-", " ", "[ ]", " ", "Buy", " ", "groceries", " ", "@home">> >>

\* extension.ts buildNewSampleNoteContent, as the lines of the text
buildNewSampleNoteContent ==
    <<SAMPLE_NOTE_HEADER, <<>>, SAMPLE_NOTE_INTRO, <<>>, <<"##", " ", "Tasks">>, <<>> >>
    \o SAMPLE_TASKS \o << <<>>, <<"##", " ", "Notes">>, <<>>, <<>> >>

\* extension.ts buildSampleAppendBlock, as the lines of the text (it begins with '\n')
buildSampleAppendBlock ==
    << <<>>, <<"---">>, <<>>, <<"##", " ", "Sample", " ", "Tasks", " ", "(Generated)">>,
       <<>>, SAMPLE_NOTE_INTRO, <<>> >>
    \o SAMPLE_TASKS \o << <<>> >>

\* existingContent.endsWith('\n'), for a text given by its lines
endsWithNewline(doc) == Len(doc) >= 2 /\ doc[Len(doc)] = <<>>

\* extension.ts createOrAppendSampleNote: the folder after the call
createOrAppendSampleNote(dir) ==
    IF SAMPLE_NOTE_FILENAME \notin DOMAIN dir
    THEN Put(dir, SAMPLE_NOTE_FILENAME, buildNewSampleNoteContent)
    ELSE LET existingContent == dir[SAMPLE_NOTE_FILENAME]
         IN  Put(dir, SAMPLE_NOTE_FILENAME,
                 IF endsWithNewline(existingContent)
                 THEN existingContent \o buildSampleAppendBlock
                 ELSE existingContent \o << <<>> >> \o buildSampleAppendBlock)

\* dailyNotes.generateSampleTodo with the notes folder configured: the note is created
\* or appended to, the whole document is normalized and saved when the pass has edits
\* (the save runs the will-save and did-save passes), and todo.md is regenerated
GenerateSampleTodo ==
    LET written == createOrAppendSampleNote(files)
        text == written[SAMPLE_NOTE_FILENAME]
    IN  /\ SAMPLE_NOTE_FILENAME \in DOMAIN files
              => Len(files[SAMPLE_NOTE_FILENAME]) <= MaxSampleLines
        /\ \E d1 \in Pass(text, SAMPLE_NOTE_FILENAME) :
              IF d1 = text
              THEN files' = writeTodoFile(written)
              ELSE \E d2 \in Pass(d1, SAMPLE_NOTE_FILENAME) :
                   \E d3 \in Pass(d2, SAMPLE_NOTE_FILENAME) :
                      files' = writeTodoFile(Put(written, SAMPLE_NOTE_FILENAME, d3))
        /\ last' = [NoLast EXCEPT !.op = "generateSampleTodo", !.file = SAMPLE_NOTE_FILENAME,
                      !.created = SAMPLE_NOTE_FILENAME \notin DOMAIN files,
                      !.before = IF SAMPLE_NOTE_FILENAME \in DOMAIN files
                                 THEN files[SAMPLE_NOTE_FILENAME] ELSE <<>>]
        /\ UNCHANGED <<today, existingIds, newId, authored, savedIds, editorVars>>

\* the documents found in the folder before a command: a task the program has not
\* stamped (written while the folder setting pointed elsewhere, or by another tool),
\* a stamped task, and a text without tasks
FoundDocs ==
    { << <<"-", " ", "[ ]", " ", "Buy", " ", "milk">> >>,
      << <<"-", " ", "[ ]", " ", "(B)", " ", "Call", " ", "@home", " ", "id:", "abc", " ",
           "cd:", "2000-01-01">>, <<>> >>,
      << <<"Notes">>, <<>> >> }

\* a folder in which each of today's note, yesterday's note and the sample note is
\* missing or is one of the documents above
InitCreate ==
    /\ \E present \in SUBSET {DailyName(1), DailyName(2), SAMPLE_NOTE_FILENAME} :
          files \in [present -> FoundDocs]
    /\ today = 2
    /\ last = NoLast
    /\ existingIds = {}
    /\ newId = ""
    /\ authored = 0
    /\ savedIds = <<>>
    /\ EditorIdle

NextCreate ==
    \/ OpenNote
    \/ CalendarToday
    \/ WebviewToday
    \/ \E d \in NoteDays : WebviewOpenDate(d)
    \/ \E d \in NoteDays : OpenNoteForDate(d)
    \/ GenerateSampleTodo

SpecCreate == InitCreate /\ [][NextCreate]_vars

OpenOrCreateOps ==
    {"openNote", "calendarToday", "webviewToday", "webviewOpenDate", "openNoteForDate"}

\* C30: an open-or-create command leaves every document that exists as it is, and the
\* sample command leaves every other document as it is and keeps the content that
\* 2000-01-01.md had as the beginning of its new content
NoOverwriteOnCreate ==
    [][/\ last'.op \in OpenOrCreateOps =>
             \A f \in DOMAIN files : f \in DOMAIN files' /\ files'[f] = files[f]
       /\ last'.op = "generateSampleTodo" =>
             /\ \A f \in DOMAIN files \ {SAMPLE_NOTE_FILENAME, TodoFile} :
                   f \in DOMAIN files' /\ files'[f] = files[f]
             /\ SAMPLE_NOTE_FILENAME \in DOMAIN files =>
                   IsPrefix(files[SAMPLE_NOTE_FILENAME], files'[SAMPLE_NOTE_FILENAME])]_vars

\* ----------------------------------------------- commands without a notes folder
\* extension.ts getNotesFolder: the folder path, "" for null
getNotesFolder ==
    IF config.folder = "" \/ rootPath = "" THEN "" ELSE rootPath \o "/" \o config.folder

PleaseConfigure == "Please configure the daily notes folder in settings."

\* a handler that returns early: it shows a message (or none) and touches no file
Report(op, message) ==
    /\ files' = files
    /\ last' = [NoLast EXCEPT !.op = op, !.message = message]
    /\ UNCHANGED <<today, existingIds, newId, authored, savedIds, editorVars>>

\* dailyNotes.openNote: it reads the two settings itself; the folder it works in is
\* path.join(workspace root, folder || ''), which is the workspace root when the
\* folder setting is empty
OpenNoteCommand ==
    IF rootPath = "" THEN Report("openNote", "Workspace folder is not set.") ELSE OpenNote

\* dailyNotes.openNoteForDate with a valid date
OpenNoteForDateCommand(d) ==
    IF getNotesFolder = "" THEN Report("openNoteForDate", PleaseConfigure)
    ELSE OpenNoteForDate(d)

\* dailyNotes.calendarToday: without a folder it returns without a message
CalendarTodayCommand ==
    IF getNotesFolder = "" THEN Report("calendarToday", "") ELSE CalendarToday

\* the calendar webview's 'today' message: without a folder nothing is opened
WebviewTodayMessage ==
    IF getNotesFolder = "" THEN Report("webviewToday", "") ELSE WebviewToday

\* the calendar webview's 'openDate' message: openOrCreateDailyNoteForDate reports
WebviewOpenDateMessage(d) ==
    IF getNotesFolder = "" THEN Report("webviewOpenDate", PleaseConfigure)
    ELSE WebviewOpenDate(d)

\* dailyNotes.generateTodo
GenerateTodoCommand ==
    IF getNotesFolder = "" THEN Report("generateTodo", PleaseConfigure) ELSE GenerateTodo

\* dailyNotes.generateSampleTodo
GenerateSampleTodoCommand ==
    IF getNotesFolder = "" THEN Report("generateSampleTodo", PleaseConfigure)
    ELSE GenerateSampleTodo

\* the save handlers: onWillSaveTextDocument returns, onDidSaveTextDocument skips the
\* period-document block, and processUpdatedTodosFromDocument returns
SaveHandlers(f) ==
    /\ f \in DOMAIN files
    /\ IF getNotesFolder = ""
       THEN /\ Report("save", "")
       ELSE Save(f)

\* TodoTreeProvider.getChildren at the root: scanAllTasks returns [] without a folder
\* and the tree shows one node with a hint
TodoTreeChildren ==
    IF getNotesFolder = "" THEN Report("refreshTodoTree", "Configure dailyNotes.folder to see tasks.")
    ELSE RefreshTodoTree

\* the workspace has no folder, or the folder setting is empty; what the commands would
\* work on is the directory path.join(root, folder) with a note or two in it
InitNoFolder ==
    /\ config \in [folder : {"", "notes"}, autoSaveEnabled : {FALSE}]
    /\ rootPath \in {"", "/ws"}
    /\ getNotesFolder = ""
    /\ IF rootPath = "" THEN files = <<>>
       ELSE \E present \in SUBSET {DailyName(1), OtherFile} : files \in [present -> FoundDocs]
    /\ today \in 1..MaxDay
    /\ last = NoLast
    /\ existingIds = {}
    /\ newId = ""
    /\ authored = 0
    /\ savedIds = <<>>
    /\ EditorAtRest

NextNoFolder ==
    \/ OpenNoteCommand
    \/ \E d \in NoteDays : OpenNoteForDateCommand(d)
    \/ CalendarTodayCommand
    \/ WebviewTodayMessage
    \/ \E d \in NoteDays : WebviewOpenDateMessage(d)
    \/ GenerateTodoCommand
    \/ GenerateSampleTodoCommand
    \/ \E f \in DOMAIN files : SaveHandlers(f)
    \/ TodoTreeChildren

SpecNoFolder == InitNoFolder /\ [][NextNoFolder]_vars

\* C21: while no notes folder is configured, a command or handler that needs the folder
\* creates and modifies no file, and the commands the user invokes on the folder say
\* that the configuration is missing
NoFolderNoWrite ==
    [][getNotesFolder = "" =>
          /\ files' = files
          /\ last'.op \in {"openNote", "openNoteForDate", "webviewOpenDate", "generateTodo",
                           "generateSampleTodo", "refreshTodoTree"}
                => last'.message # ""]_vars

\* ----------------------------------------------------- the listing of the folder
MaxNames == 3      \* file names in the folder handed to processNoteFiles

\* the names a folder is drawn from: notes in either date format, a 30th of February
\* and a month 13, a date with another extension and with none, and other markdown
ListedNames ==
    {DailyName(1), DailyName(2), SAMPLE_NOTE_FILENAME, "20260201.md", "20260202.md",
     "2026-02-30.md", "20261301.md", "2026-02-01.txt", "2026-02-02", OtherFile}

\* utils.getDateRegex(dateFormat).test(file): /^\d{8}\.md$/ or /^\d{4}-\d{2}-\d{2}\.md$/
getDateRegex(dateFormat, file) ==
    CASE dateFormat = "yyyy-mm-dd" ->
            file \in {DailyName(1), DailyName(2), SAMPLE_NOTE_FILENAME, "2026-02-30.md"}
      [] dateFormat = "yyyymmdd" -> file \in {"20260201.md", "20260202.md", "20261301.md"}
      [] OTHER -> FALSE

\* utils.parseDateFromFilename(filename.replace('.md', ''), dateFormat).getTime(), for
\* a name the regex of the format accepts: the day number of the model's calendar
\* (0 for 2000-01-01), NaN for a date that does not exist
NaN == -1
parseDateFromFilename(file, dateFormat) ==
    CASE file \in {DailyName(1), "20260201.md"} -> 1
      [] file \in {DailyName(2), "20260202.md"} -> 2
      [] file = SAMPLE_NOTE_FILENAME -> 0
      [] OTHER -> NaN

\* the pipeline without the filter on the parsed date
processNoteFilesIn_unvalidated(listing, dateFormat) ==
    LET matched == Pick(listing, {k \in 1..Len(listing) : getDateRegex(dateFormat, listing[k])})
        time(k) == parseDateFromFilename(matched[k], dateFormat)
        Before(i, j) == time(i) > time(j) \/ (time(i) = time(j) /\ i < j)
    IN  [n \in 1..Len(matched) |->
            matched[CHOOSE i \in 1..Len(matched) :
                       Cardinality({j \in 1..Len(matched) : Before(j, i)}) = n - 1]]

\* utils.processNoteFiles on a listing in readdir order: filter by the regex, parse,
\* drop the notes whose date is NaN, sort by b.date - a.date (the sort is stable)
processNoteFilesIn(listing, dateFormat) ==
    LET matched == Pick(listing, {k \in 1..Len(listing) : getDateRegex(dateFormat, listing[k])})
        valid == Pick(matched, {k \in 1..Len(matched) :
                                   parseDateFromFilename(matched[k], dateFormat) # NaN})
        time(k) == parseDateFromFilename(valid[k], dateFormat)
        Before(i, j) == time(i) > time(j) \/ (time(i) = time(j) /\ i < j)
    IN  [n \in 1..Len(valid) |->
            valid[CHOOSE i \in 1..Len(valid) :
                     Cardinality({j \in 1..Len(valid) : Before(j, i)}) = n - 1]]

\* a folder with up to MaxNames files
InitNames ==
    /\ \E S \in SUBSET ListedNames : Cardinality(S) <= MaxNames /\ files = [f \in S |-> <<>>]
    /\ today = 1
    /\ last = NoLast
    /\ existingIds = {}
    /\ newId = ""
    /\ authored = 0
    /\ savedIds = <<>>
    /\ EditorIdle

\* processNoteFiles(files, dateFormat, folderPath) on the names of the folder in some
\* readdir order
ProcessNoteFiles(listing, dateFormat) ==
    /\ Len(listing) = Cardinality(DOMAIN files)
    /\ last' = [NoLast EXCEPT !.op = "processNoteFiles", !.arg = listing,
                               !.dateFormat = dateFormat,
                               !.result = processNoteFilesIn(listing, dateFormat)]
    /\ UNCHANGED <<files, today, existingIds, newId, authored, savedIds, editorVars>>

NextNames ==
    \E listing \in [1..Cardinality(DOMAIN files) -> DOMAIN files] :
       /\ \A i, j \in 1..Len(listing) : listing[i] = listing[j] => i = j
       /\ \E dateFormat \in {"yyyy-mm-dd", "yyyymmdd"} : ProcessNoteFiles(listing, dateFormat)

SpecNames == InitNames /\ [][NextNames]_vars

\* a name of the format that is a date of the calendar
IsNoteOf(file, dateFormat) ==
    \/ dateFormat = "yyyy-mm-dd" /\ file \in {DailyName(1), DailyName(2), SAMPLE_NOTE_FILENAME}
    \/ dateFormat = "yyyymmdd" /\ file \in {"20260201.md", "20260202.md"}

\* the day a note is dated: 2000-01-01 before the first of February 2026 before the second
DatedDay(file) ==
    CASE file = SAMPLE_NOTE_FILENAME -> 0
      [] file \in {DailyName(1), "20260201.md"} -> 1
      [] OTHER -> 2

\* C22: processNoteFiles returns the names of its input that have the pattern of the
\* active date format and are dates of the calendar, each once, the newest first; a
\* name in the other format, without .md or with a date that does not exist is left
\* out; for the names of the workspace model it is the listing the other operators use
NotesListedNewestFirst ==
    last.op = "processNoteFiles" =>
        /\ Range(last.result) = {f \in Range(last.arg) : IsNoteOf(f, last.dateFormat)}
        /\ Len(last.result) = Cardinality(Range(last.result))
        /\ \A i, j \in 1..Len(last.result) :
              i < j => DatedDay(last.result[i]) > DatedDay(last.result[j])
        /\ (last.dateFormat = "yyyy-mm-dd"
              /\ Range(last.arg) \subseteq DailyNames \cup {SAMPLE_NOTE_FILENAME, OtherFile})
                 => last.result = processNoteFiles(Range(last.arg))

\* a listing with the older note first and a 30th of February between the two notes
NotesListedNewestFirstWitness ==
    /\ last.op = "processNoteFiles"
    /\ last.dateFormat = "yyyy-mm-dd"
    /\ last.arg = <<DailyName(1), "2026-02-30.md", DailyName(2)>>
    /\ last.result = <<DailyName(2), DailyName(1)>>

\* ------------------------------------------------------------ the metadata codec
\* task texts without a token, trimmed and with single spaces
CodecTexts ==
    { <<"Buy", " ", "milk">>, <<"(B)", " ", "Call", " ", "@home">>, <<"Done", ".">> }

\* values without white space: an id, a date, and an id that ends with a punctuation
\* character
CodecValues == { <<"abc">>, <<D1>>, <<"abc", ")">> }

\* a text and a metadata map, each field absent or one of the values
InitCodec ==
    /\ \E text \in CodecTexts :
       \E M \in [{"id", "cd", "due", "dd"} -> CodecValues \cup {<<>>}] :
          last = [NoLast EXCEPT !.arg = [text |-> text,
                                         meta |-> [id |-> M["id"], cd |-> M["cd"],
                                                   due |-> M["due"], dd |-> M["dd"]]]]
    /\ files = <<>>
    /\ today = 1
    /\ existingIds = {}
    /\ newId = ""
    /\ authored = 0
    /\ savedIds = <<>>
    /\ EditorIdle

\* stripAndCollectMeta(text + buildMetaSuffix(M))
RoundTrip ==
    /\ last.op = "init"
    /\ last' = [last EXCEPT !.op = "roundTrip",
                  !.result = stripAndCollectMeta(last.arg.text \o buildMetaSuffix(last.arg.meta))]
    /\ UNCHANGED <<files, today, existingIds, newId, authored, savedIds, editorVars>>

\* parseAndStripMetadata(text + buildMetaSuffix(M)), the parser's decoder
ParserRoundTrip ==
    /\ last.op = "init"
    /\ last' = [last EXCEPT !.op = "parserRoundTrip",
                  !.result = parseAndStripMetadata(last.arg.text \o buildMetaSuffix(last.arg.meta))]
    /\ UNCHANGED <<files, today, existingIds, newId, authored, savedIds, editorVars>>

NextCodec == RoundTrip \/ ParserRoundTrip

SpecCodec == InitCodec /\ [][NextCodec]_vars

\* C26: decoding a token-free text followed by the encoded metadata gives back the text
\* and the metadata, for values that are non-empty and have no white space
RoundTripRecovers ==
    last.op \in {"roundTrip", "parserRoundTrip"} =>
        last.result = [cleanedText |-> last.arg.text, meta |-> last.arg.meta]

\* ------------------------------------------------- the scan on a failing file system
\* a scan that gives up at the first file it cannot read
scanAllTasksReading_aborts(dir, listOk, readable) ==
    IF ~listOk \/ ~(DOMAIN dir \subseteq readable) THEN <<>> ELSE scanAllTasks(dir)

\* extension.ts scanAllTasks when readdir may fail (listOk) and readFile succeeds for
\* the files in readable only: the catch around readdir returns [], the catch around
\* one file's read skips that file
scanAllTasksReading(dir, listOk, readable) ==
    LET notes == processNoteFiles(DOMAIN dir)
    IN  IF ~listOk THEN <<>>
        ELSE Flatten([n \in 1..Len(notes) |->
                        IF notes[n] \in readable
                        THEN parseTasksFromContent(dir[notes[n]], basename(notes[n]))
                        ELSE <<>>])

\* one scan; readOk records whether the folder could be listed, known the files that
\* could be read
ScanAllTasks(listOk, readable) ==
    /\ last' = [NoLast EXCEPT !.op = "scanAllTasks", !.readOk = listOk, !.known = readable,
                               !.result = scanAllTasksReading(files, listOk, readable)]
    /\ UNCHANGED <<files, today, existingIds, newId, authored, savedIds, editorVars>>

NextScan == \E listOk \in BOOLEAN, readable \in SUBSET DailyNames : ScanAllTasks(listOk, readable)

SpecScan == InitSummary /\ [][NextScan]_vars

\* the folder without the files that cannot be read
Readable(dir, readable) == [f \in DOMAIN dir \cap readable |-> dir[f]]

\* C27: a scan in which some period documents cannot be read returns the tasks of all
\* the others, in the order of a scan of a folder that holds only those; a scan that
\* cannot list the folder returns the empty list
ScanSkipsUnreadable ==
    last.op = "scanAllTasks" =>
        IF last.readOk THEN last.result = scanAllTasks(Readable(files, last.known))
        ELSE last.result = <<>>

\* the newer note has a task and cannot be read; the task of the older note is returned
ScanSkipsUnreadableWitness ==
    /\ last.op = "scanAllTasks"
    /\ last.readOk
    /\ last.known = {DailyName(1)}
    /\ parseTasksFromContent(files[DailyName(2)], D2) # <<>>
    /\ last.result # <<>>
    /\ last.result = parseTasksFromContent(files[DailyName(1)], D1)

\* ------------------------------------------------ the editor: saves and autosave
\* The extension host runs one callback at a time.  A handler runs up to its first
\* await as one step; what it awaits (applyEdit, document.save) is resolved by an item
\* of the queue, behind the events that the awaited operation raised.  The user, the
\* clock and the timer act between any two steps.
MaxTicks == 1      \* the clock stops after this many ticks
MaxQueue == 2      \* no further save is started from outside while so many items are pending
MaxTimers == 2     \* interval timers the runtime can hold at once

CooldownMs == 5000                   \* typingCooldownUntilMs = Date.now() + 5000
TickMs == CooldownMs                 \* the step of the clock: one cooldown
MaxClock == MaxTicks * TickMs

Untitled == "Untitled-1"             \* a document with isUntitled
EditorDocs == {DailyName(1), OtherFile, Untitled}   \* vscode.workspace.textDocuments
TitledDocs == EditorDocs \ {Untitled}

Item(type, doc, ok, rest) == [type |-> type, doc |-> doc, ok |-> ok, rest |-> rest]

\* the period documents that are open
PeriodDocs == {d \in EditorDocs : isDailyNoteDocument(d)}

\* what is recorded of the save chain of a period document: who started it ("user",
\* "auto"; "overlapped" once a further save of the document began before the chain
\* had ended, "failed" once applyEdit threw or the engine's save did not save), how
\* often todo.md was regenerated and how often the engine saved
NoChain == [origin |-> "none", regenerations |-> 0, engineSaves |-> 0]

\* counters stop at 2
Inc(n) == IF n < 2 THEN n + 1 ELSE n

\* the chain c after one more regeneration or engine save; chains that overlap are
\* not counted
Regenerated(c) ==
    IF c.origin \in {"user", "auto"} THEN [c EXCEPT !.regenerations = Inc(@)] ELSE c
EngineSaved(c) ==
    IF c.origin \in {"user", "auto"} THEN [c EXCEPT !.engineSaves = Inc(@)] ELSE c
Failed(c) ==
    IF c.origin \in {"user", "auto"} THEN [c EXCEPT !.origin = "failed"] ELSE c

\* the did-save event of d or a step of its normalization is still to run
ActiveChain(d) ==
    \E i \in 1..Len(queue) :
        queue[i].doc = d /\ queue[i].type \in {"didSave", "applyEditDone", "saveDone"}

\* an autoSaveDirtyDocuments loop is between two saves
AutoSaveRunning == \E i \in 1..Len(queue) : queue[i].type = "autoSaveResume"

\* extension.ts isAutoSaveEnabled
isAutoSaveEnabled == config.autoSaveEnabled

\* the state after activate(): setupAutoSave() has run once, no editor is active
InitEditor ==
    /\ config \in [folder : {"notes"}, autoSaveEnabled : BOOLEAN]
    /\ rootPath = "/ws"
    /\ now = 0
    /\ typingCooldownUntilMs = 0
    /\ autoSaveInterval = IF config.autoSaveEnabled THEN 1 ELSE 0
    /\ timers = IF config.autoSaveEnabled THEN {1} ELSE {}
    /\ disposed = FALSE
    /\ autoSavedDocuments = {}
    /\ normalizingDocuments = {}
    /\ previousActiveEditorUri = ""
    /\ dirty = {}
    /\ raw = {}
    /\ typedAt = NaN
    /\ queue = <<>>
    /\ chain = [d \in PeriodDocs |-> NoChain]
    /\ files = <<>>
    /\ today = 1
    /\ last = NoLast
    /\ existingIds = {}
    /\ newId = ""
    /\ authored = 0
    /\ savedIds = <<>>

notesVars == <<files, today, existingIds, newId, authored, savedIds>>

\* time passes
Tick ==
    /\ now < MaxClock
    /\ now' = now + TickMs
    /\ last' = NoLast
    /\ UNCHANGED <<notesVars, config, rootPath, typingCooldownUntilMs, autoSaveInterval,
                   timers, disposed, autoSavedDocuments, normalizingDocuments,
                   previousActiveEditorUri, dirty, raw, typedAt, queue, chain>>

\* the user changes the text of d; in a period document the change may leave a task
\* line that the normalizer would rewrite.  onDidChangeTextDocument returns for an
\* untitled document and else sets the cooldown.
Type(d, task) ==
    /\ dirty' = dirty \cup {d}
    /\ raw' = IF task /\ isDailyNoteDocument(d) THEN raw \cup {d} ELSE raw
    /\ typedAt' = IF d \in TitledDocs THEN now ELSE typedAt
    /\ typingCooldownUntilMs' =
          IF d \in TitledDocs /\ ~disposed THEN now + CooldownMs ELSE typingCooldownUntilMs
    /\ last' = NoLast
    /\ UNCHANGED <<notesVars, config, rootPath, now, autoSaveInterval, timers, disposed,
                   autoSavedDocuments, normalizingDocuments, previousActiveEditorUri,
                   queue, chain>>

\* onWillSaveTextDocument contributes edits: the folder is configured, the document is
\* a period document and computeTaskNormalizationEdits returns edits
WillSaveEdits(d, rawNow) ==
    ~disposed /\ getNotesFolder # "" /\ isDailyNoteDocument(d) /\ d \in rawNow

\* document.save() is called for d: the will-save edits are applied (a text change),
\* the file is written when ok, and the did-save event is queued, followed by what
\* the caller does once save() has resolved (after).  edited: the caller has itself
\* changed the text in this step.
SaveDocument(d, origin, ok, rawNow, dirtyNow, edited, q, after) ==
    LET edits == WillSaveEdits(d, rawNow)
    IN  /\ raw' = IF edits THEN rawNow \ {d} ELSE rawNow
        /\ typingCooldownUntilMs' =
              IF (edits \/ edited) /\ ~disposed THEN now + CooldownMs
              ELSE typingCooldownUntilMs
        /\ dirty' = IF ok THEN dirtyNow \ {d}
                    ELSE IF edits THEN dirtyNow \cup {d} ELSE dirtyNow
        /\ queue' = q \o (IF ok THEN <<Item("didSave", d, TRUE, <<>>)>> ELSE <<>>) \o after
        /\ chain' =
              IF d \notin PeriodDocs THEN chain
              ELSE IF origin = "engine"
              THEN [chain EXCEPT ![d] = IF ok THEN EngineSaved(@) ELSE Failed(EngineSaved(@))]
              ELSE IF ~ok THEN chain
              ELSE IF ActiveChain(d) THEN [chain EXCEPT ![d] = [NoChain EXCEPT !.origin = "overlapped"]]
              ELSE [chain EXCEPT ![d] = [NoChain EXCEPT !.origin = origin]]

\* the user saves a document that has a file
UserSave(d) ==
    /\ d \in TitledDocs
    /\ Len(queue) < MaxQueue
    /\ \E ok \in BOOLEAN : SaveDocument(d, "user", ok, raw, dirty, FALSE, queue, <<>>)
    /\ last' = NoLast
    /\ UNCHANGED <<notesVars, config, rootPath, now, autoSaveInterval, timers, disposed,
                   autoSavedDocuments, normalizingDocuments, previousActiveEditorUri,
                   typedAt>>

\* a setup that leaves the running timer alone
setupAutoSave_keepsTimer(enabled) ==
    LET id == Min((1..MaxTimers) \ timers)
    IN  IF enabled THEN timers' = timers \cup {id} /\ autoSaveInterval' = id
        ELSE timers' = timers /\ autoSaveInterval' = autoSaveInterval

\* activate's setupAutoSave, with isAutoSaveEnabled() = enabled: the current timer is
\* cleared, and a new one is set when autosave is enabled
setupAutoSave(enabled) ==
    LET cleared == IF autoSaveInterval # 0 THEN timers \ {autoSaveInterval} ELSE timers
        id == Min((1..MaxTimers) \ cleared)
    IN  IF enabled THEN timers' = cleared \cup {id} /\ autoSaveInterval' = id
        ELSE timers' = cleared /\ autoSaveInterval' = 0

\* the setting dailyNotes.autoSaveEnabled is written; onDidChangeConfiguration, while
\* it is subscribed, runs setupAutoSave
ChangeSetting(enabled) ==
    /\ Cardinality(timers) < MaxTimers
    /\ config' = [config EXCEPT !.autoSaveEnabled = enabled]
    /\ IF disposed THEN UNCHANGED <<timers, autoSaveInterval>> ELSE setupAutoSave(enabled)
    /\ last' = NoLast
    /\ UNCHANGED <<notesVars, rootPath, now, typingCooldownUntilMs, disposed,
                   autoSavedDocuments, normalizingDocuments, previousActiveEditorUri,
                   dirty, raw, typedAt, queue, chain>>

\* the subscriptions are disposed: the listeners are gone and the dispose entry of
\* activate clears the timer
Dispose ==
    /\ ~disposed
    /\ disposed' = TRUE
    /\ timers' = IF autoSaveInterval # 0 THEN timers \ {autoSaveInterval} ELSE timers
    /\ last' = NoLast
    /\ UNCHANGED <<notesVars, config, rootPath, now, typingCooldownUntilMs,
                   autoSaveInterval, autoSavedDocuments, normalizingDocuments,
                   previousActiveEditorUri, dirty, raw, typedAt, queue, chain>>

\* one round of the loop of autoSaveDirtyDocuments: the uri is added to
\* autoSavedDocuments, save() is called and the loop waits for it
AutoSaveNext(op, documents, q) ==
    IF documents = <<>>
    THEN /\ queue' = q
         /\ last' = [NoLast EXCEPT !.op = op]
         /\ UNCHANGED <<autoSavedDocuments, raw, dirty, typingCooldownUntilMs, chain>>
    ELSE LET d == Head(documents)
         IN  /\ autoSavedDocuments' = autoSavedDocuments \cup {d}
             /\ \E ok \in BOOLEAN :
                   SaveDocument(d, "auto", ok, raw, dirty, FALSE, q,
                                <<Item("autoSaveResume", d, ok, Tail(documents))>>)
             /\ last' = [NoLast EXCEPT !.op = op, !.file = d]

\* vscode.workspace.textDocuments.filter(doc => doc.isDirty && !doc.isUntitled)
DirtyDocuments ==
    (IF DailyName(1) \in dirty THEN <<DailyName(1)>> ELSE <<>>)
        \o (IF OtherFile \in dirty THEN <<OtherFile>> ELSE <<>>)

\* the interval callback: nothing during the cooldown, else autoSaveDirtyDocuments
TimerFire(id) ==
    /\ id \in timers
    /\ ~AutoSaveRunning
    /\ Len(queue) < MaxQueue
    /\ IF now < typingCooldownUntilMs
       THEN /\ last' = [NoLast EXCEPT !.op = "timerSkip"]
            /\ UNCHANGED <<autoSavedDocuments, raw, dirty, typingCooldownUntilMs, chain, queue>>
       ELSE AutoSaveNext("timer", DirtyDocuments, queue)
    /\ UNCHANGED <<notesVars, config, rootPath, now, autoSaveInterval, timers, disposed,
                   normalizingDocuments, previousActiveEditorUri, typedAt>>

\* autoSaveDirtyDocuments resumes after `await document.save()`
AutoSaveResume ==
    /\ queue # <<>> /\ Head(queue).type = "autoSaveResume"
    /\ LET item == Head(queue)
           kept == IF item.ok THEN autoSavedDocuments ELSE autoSavedDocuments \ {item.doc}
       IN  IF item.rest = <<>>
           THEN /\ autoSavedDocuments' = kept
                /\ queue' = Tail(queue)
                /\ last' = [NoLast EXCEPT !.op = "autoSaveResume"]
                /\ UNCHANGED <<raw, dirty, typingCooldownUntilMs, chain>>
           ELSE LET d == Head(item.rest)
                IN  /\ autoSavedDocuments' = kept \cup {d}
                    /\ \E ok \in BOOLEAN :
                          SaveDocument(d, "auto", ok, raw, dirty, FALSE, Tail(queue),
                                       <<Item("autoSaveResume", d, ok, Tail(item.rest))>>)
                    /\ last' = [NoLast EXCEPT !.op = "autoSaveResume", !.file = d]
    /\ UNCHANGED <<notesVars, config, rootPath, now, autoSaveInterval, timers, disposed,
                   normalizingDocuments, previousActiveEditorUri, typedAt>>

\* onDidChangeActiveTextEditor: the editor that loses the focus is saved when autosave
\* is on, the cooldown is over and its document is dirty and has a file
SwitchEditor(to) ==
    /\ ~disposed
    /\ to # previousActiveEditorUri
    /\ Len(queue) < MaxQueue
    /\ previousActiveEditorUri' = to
    /\ IF /\ isAutoSaveEnabled /\ previousActiveEditorUri # ""
          /\ ~(now < typingCooldownUntilMs)
          /\ previousActiveEditorUri \in dirty /\ previousActiveEditorUri # Untitled
       THEN \E ok \in BOOLEAN :
               /\ autoSavedDocuments' = IF ok THEN autoSavedDocuments \cup {previousActiveEditorUri}
                                        ELSE autoSavedDocuments \ {previousActiveEditorUri}
               /\ SaveDocument(previousActiveEditorUri, "auto", ok, raw, dirty, FALSE, queue, <<>>)
               /\ last' = [NoLast EXCEPT !.op = "switchEditor", !.file = previousActiveEditorUri]
       ELSE /\ last' = [NoLast EXCEPT !.op = "switchEditor"]
            /\ UNCHANGED <<autoSavedDocuments, raw, dirty, typingCooldownUntilMs, chain, queue>>
    /\ UNCHANGED <<notesVars, config, rootPath, now, autoSaveInterval, timers, disposed,
                   normalizingDocuments, typedAt>>

\* a normalizer that does not look at normalizingDocuments
MustNormalize_unguarded(d) ==
    getNotesFolder # "" /\ isDailyNoteDocument(d) /\ d \in raw

\* onDidSaveTextDocument calls normalizeDailyNoteMetadata and that goes on to rewrite:
\* the document is a period document, its uri is not in normalizingDocuments and
\* computeTaskNormalizationEdits returns edits
MustNormalize(d) ==
    getNotesFolder # "" /\ isDailyNoteDocument(d) /\ d \notin normalizingDocuments /\ d \in raw

\* onDidSaveTextDocument for the event at the head of the queue.  When the normalizer
\* rewrites, the handler waits for it and returns without regenerating.  Else it calls
\* processUpdatedTodosFromDocument for a period document, and once more for a document
\* that is in autoSavedDocuments (the call returns early for other documents).
OnDidSave ==
    /\ queue # <<>> /\ Head(queue).type = "didSave"
    /\ LET d == Head(queue).doc
           period == getNotesFolder # "" /\ isDailyNoteDocument(d)
       IN  /\ last' = [NoLast EXCEPT !.op = "onDidSave", !.file = d,
                         !.repeat = d \in normalizingDocuments]
           /\ IF disposed
              THEN /\ queue' = Tail(queue)
                   /\ UNCHANGED <<normalizingDocuments, autoSavedDocuments, chain>>
              ELSE IF MustNormalize(d)
              THEN /\ normalizingDocuments' = normalizingDocuments \cup {d}
                   /\ queue' = Tail(queue) \o <<Item("applyEditDone", d, TRUE, <<>>)>>
                   /\ UNCHANGED <<autoSavedDocuments, chain>>
              ELSE /\ queue' = Tail(queue)
                   /\ autoSavedDocuments' = autoSavedDocuments \ {d}
                   /\ chain' =
                         IF ~period THEN chain
                         ELSE IF d \in autoSavedDocuments
                         THEN [chain EXCEPT ![d] = Regenerated(Regenerated(@))]
                         ELSE [chain EXCEPT ![d] = Regenerated(@)]
                   /\ UNCHANGED normalizingDocuments
    /\ UNCHANGED <<notesVars, config, rootPath, now, typingCooldownUntilMs, autoSaveInterval,
                   timers, disposed, previousActiveEditorUri, dirty, raw, typedAt>>

\* a normalizer whose cleanup runs only when nothing was thrown
ApplyEditThrew_noFinally(d) ==
    /\ queue' = Tail(queue)
    /\ chain' = [chain EXCEPT ![d] = Failed(@)]
    /\ UNCHANGED <<normalizingDocuments, raw, dirty, typingCooldownUntilMs>>

\* normalizeDailyNoteMetadata: applyEdit rejects; the finally block removes the uri
ApplyEditThrew(d) ==
    /\ normalizingDocuments' = normalizingDocuments \ {d}
    /\ queue' = Tail(queue)
    /\ chain' = [chain EXCEPT ![d] = Failed(@)]
    /\ UNCHANGED <<raw, dirty, typingCooldownUntilMs>>

\* normalizeDailyNoteMetadata after `await applyEdit`: the edit was applied or not, or
\* the call threw; then document.save() is called, which may fail
ApplyEditDone ==
    /\ queue # <<>> /\ Head(queue).type = "applyEditDone"
    /\ LET d == Head(queue).doc
       IN  /\ last' = NoLast
           /\ \/ ApplyEditThrew(d)
              \/ \E applied, ok \in BOOLEAN :
                    /\ SaveDocument(d, "engine", ok,
                                    IF applied THEN raw \ {d} ELSE raw,
                                    IF applied THEN dirty \cup {d} ELSE dirty,
                                    applied, Tail(queue),
                                    <<Item("saveDone", d, ok, <<>>)>>)
                    /\ UNCHANGED normalizingDocuments
    /\ UNCHANGED <<notesVars, config, rootPath, now, autoSaveInterval, timers, disposed,
                   autoSavedDocuments, previousActiveEditorUri, typedAt>>

\* normalizeDailyNoteMetadata after `await document.save()`: finally, return true, and
\* the did-save handler that called it returns
SaveDone ==
    /\ queue # <<>> /\ Head(queue).type = "saveDone"
    /\ normalizingDocuments' = normalizingDocuments \ {Head(queue).doc}
    /\ queue' = Tail(queue)
    /\ last' = NoLast
    /\ UNCHANGED <<notesVars, config, rootPath, now, typingCooldownUntilMs, autoSaveInterval,
                   timers, disposed, autoSavedDocuments, previousActiveEditorUri, dirty, raw,
                   typedAt, chain>>

\* the extension host runs the item at the head of its queue
Deliver == OnDidSave \/ ApplyEditDone \/ SaveDone \/ AutoSaveResume

NextEditor ==
    \/ Tick
    \/ \E d \in EditorDocs, task \in BOOLEAN : Type(d, task)
    \/ \E d \in TitledDocs : UserSave(d)
    \/ \E enabled \in BOOLEAN : ChangeSetting(enabled)
    \/ Dispose
    \/ \E id \in 1..MaxTimers : TimerFire(id)
    \/ \E to \in EditorDocs : SwitchEditor(to)
    \/ OnDidSave
    \/ ApplyEditDone
    \/ SaveDone
    \/ AutoSaveResume

SpecEditor == InitEditor /\ [][NextEditor]_vars

\* C29: while the subscriptions are alive there is at most one interval timer, and
\* there is one exactly when autosave is enabled; once the subscriptions are disposed
\* there is none.
TimersMatchSetting ==
    /\ Cardinality(timers) <= 1
    /\ ~disposed => (timers # {} <=> isAutoSaveEnabled)
    /\ disposed => timers = {}

\* autosave was on, its timer has started a loop that is still running, and the
\* setting has since been turned off
TimersMatchSettingWitness ==
    ~disposed /\ AutoSaveRunning /\ ~isAutoSaveEnabled /\ timers = {}

\* the steps of normalizeDailyNoteMetadata for d that wait in the queue
PendingRewrites(q, d) ==
    Cardinality({i \in 1..Len(q) : q[i].doc = d /\ q[i].type = "applyEditDone"})

\* the did-save handler runs for d in this step
HandlesSaveOf(d) ==
    /\ queue # <<>> /\ Head(queue).type = "didSave" /\ Head(queue).doc = d
    /\ last'.op = "onDidSave"

\* C24: a did-save handler that runs for a document whose uri is in
\* normalizingDocuments starts no rewrite and no save of it (the marker, the text and
\* the count of engine saves stay as they are), and a save of a period document
\* causes at most one save by the engine.
ReentrantSaveShortCircuits ==
    /\ [](\A d \in PeriodDocs : chain[d].engineSaves <= 1)
    /\ [][\A d \in PeriodDocs :
            (HandlesSaveOf(d) /\ d \in normalizingDocuments) =>
                /\ normalizingDocuments' = normalizingDocuments
                /\ PendingRewrites(queue', d) = PendingRewrites(queue, d)
                /\ chain'[d].engineSaves = chain[d].engineSaves
                /\ raw' = raw /\ dirty' = dirty]_vars

\* the handler has just run for the engine's own save of a document of which the
\* user has meanwhile changed a task line again: there was something to rewrite
ReentrantSaveShortCircuitsWitness ==
    /\ last.op = "onDidSave" /\ last.repeat
    /\ last.file \in raw /\ last.file \in normalizingDocuments
    /\ chain[last.file].origin = "user" /\ chain[last.file].engineSaves = 1

\* the saves alone: the user types and saves, the timer autosaves, and the extension
\* host goes on running what is queued
NextSaves ==
    \/ Tick
    \/ \E d \in EditorDocs, task \in BOOLEAN : Type(d, task)
    \/ \E d \in TitledDocs : UserSave(d)
    \/ \E id \in 1..MaxTimers : TimerFire(id)
    \/ OnDidSave
    \/ ApplyEditDone
    \/ SaveDone
    \/ AutoSaveResume

SpecSavesFair == InitEditor /\ [][NextSaves]_vars /\ WF_vars(Deliver)

\* C25: the chain of handlers that a save of a period document starts comes to an
\* end unless a further save of the document joins it, a uri that is in
\* normalizingDocuments leaves it, and no uri is in it when nothing of the chain is
\* pending, whatever applyEdit and save() did.
SaveChainEnds ==
    \A d \in PeriodDocs :
        /\ [](~ActiveChain(d) => d \notin normalizingDocuments)
        /\ (d \in normalizingDocuments) ~> (d \notin normalizingDocuments)
        /\ (ActiveChain(d) /\ chain[d].origin \in {"user", "auto"})
              ~> (~ActiveChain(d) \/ chain[d].origin = "overlapped")

\* a chain has ended after the engine's save failed: the engine called save(), no
\* did-save event followed, and the marker is gone
SaveChainEndsWitness ==
    \E d \in PeriodDocs :
        /\ ~ActiveChain(d) /\ d \notin normalizingDocuments
        /\ chain[d].origin = "failed" /\ chain[d].engineSaves = 1

\* C28: when the chain of a save of a period document has ended (no further save of
\* the document joined it, neither applyEdit nor the engine's save failed, and the
\* listeners were not disposed meanwhile), todo.md has been regenerated exactly once.
OneRegenerationPerSave ==
    \A d \in PeriodDocs :
        (~disposed /\ chain[d].origin \in {"user", "auto"} /\ ~ActiveChain(d))
            => chain[d].regenerations = 1

\* the handlers whose save is an autosave
AutoSaveOps == {"timer", "autoSaveResume", "switchEditor"}

\* C23: a document that an autosave has just saved is not untitled, autosave is
\* enabled, and the user's last text change is at least the cooldown ago.
AutoSaveRespectsCooldown ==
    (last.op \in AutoSaveOps /\ last.file # "") =>
        /\ last.file # Untitled
        /\ isAutoSaveEnabled
        /\ typedAt = NaN \/ now - typedAt >= CooldownMs
====
